---- MODULE Spec2Model ----
(***************************************************************************)
(* dns-smart-block: the classification pipeline of the Log-Processor, the  *)
(* Queue-Processors (one per classification type) and the Blocklist-Server *)
(* around the shared PostgreSQL event store and the JetStream work queue.  *)
(*                                                                         *)
(* Time is a discrete clock `now`; NOW() and Utc::now() read it. Every     *)
(* await of the handlers is a step of its own, so that store errors,       *)
(* crashes and other processes can fall between two store round trips.     *)
(* Confidences are in tenths (8 stands for 0.8).                           *)
(***************************************************************************)
EXTENDS Integers, Sequences, FiniteSets, TLC

VARIABLES
    events,           \* domain_classification_events, in insertion order
    prompts,          \* prompts table: set of rows
    domains,          \* domains table: set of rows
    classifications,  \* domain_classifications, in insertion order
    now,              \* the wall clock
    pending,          \* per consumer: unacknowledged messages of the stream
    pc,               \* per Queue-Processor: position in the message handling
    cur,              \* per Queue-Processor: domain of the message in hand
    res,              \* per Queue-Processor: what run_classifier returned
    lp_pc,            \* Log-Processor: position in the line handling
    lp_dom,           \* Log-Processor: domain of the line in hand
    lp_sq,            \* Log-Processor: what should_queue_domain returned
    lp_api,           \* Log-Processor: what the dnsdist API answered for the line
    seen,             \* Log-Processor: seen_domains
    restarts,         \* how often the Log-Processor has been started again
    cap,              \* the specification's bounds on the event log and the answers of
                      \* the dnsdist API
    resp,             \* Blocklist-Server: the response to the last request
    cl,               \* classifier: the run of one classifier process
    args_ttl_days,    \* Queue-Processor: args.ttl_days, the --ttl-days argument
    lp_line,          \* Log-Processor: the line read from the stream and what it parsed to
    wire              \* a value serialized by its sender and what its receiver decoded

vars == <<events, prompts, domains, classifications, now, pending, pc, cur,
          res, lp_pc, lp_dom, lp_sq, lp_api, seen, restarts, cap, resp, cl,
          args_ttl_days,
          lp_line, wire>>

store == <<events, prompts, domains, classifications>>
proj == <<prompts, domains, classifications>>
qpv == <<pc, cur, res>>
lpv == <<lp_pc, lp_dom, lp_sq, lp_api, seen, restarts>>
env == <<now, cap, resp, cl, args_ttl_days, lp_line, wire>>

(***************************************************************************)
(* Bounds and configuration                                                *)
(***************************************************************************)
MaxEvents == 3
MaxTime == 2
MaxPending == 1
MaxRestarts == 1
MaxRows == 3
MaxCircuitEvents == 6
MaxRetryEvents == 7
MaxTies == 1

\* --classification-ttl-days and --min-confidence (tenths) of the run
TtlDays == 2
MinConfidence == 8

AllDomains == {"a.com", "b.com", "c.com"}
AllProcs == {"gaming", "video", "news"}

NoDomain == "-"
\* a payload that is not a serialized DomainMessage
Poison == "{not a domain message"
NoResult == [ok |-> FALSE, match |-> FALSE, conf |-> 0, kind |-> "", msg |-> <<>>]

\* every Queue-Processor is started with the same prompt template file
prompt_template(q) == "template"

\* compute_prompt_hash: "sha256:" followed by the digest of the content
compute_prompt_hash(content) == <<"sha256:", content>>


(***************************************************************************)
(* Event store: domain_classification_events                               *)
(***************************************************************************)
DomainEvents(d) == SelectSeq(events, LAMBDA e : e.domain = d)

\* First index of the group of rows that share created_at with row i. A row
\* with tie = TRUE carries the created_at of the row of its domain before it.
RECURSIVE TieStart(_, _)
TieStart(s, i) == IF i <= 1 \/ ~s[i].tie THEN i ELSE TieStart(s, i - 1)

\* The rows of d with the greatest created_at: ORDER BY created_at DESC
\* LIMIT 1 returns one of them, and the query names no other sort key.
LatestRows(d) ==
    LET s == DomainEvents(d)
    IN  IF Len(s) = 0 THEN {} ELSE {s[k] : k \in TieStart(s, Len(s))..Len(s)}

\* The most recently inserted row of d.
LastInserted(d) == LET s == DomainEvents(d) IN s[Len(s)]

\* NOW() of an insert may equal the created_at of the latest row of the
\* domain only when another process wrote it: a process awaits each of its
\* own inserts before it issues the next.
TieChoices(d, w) ==
    IF /\ LatestRows(d) # {}
       /\ LastInserted(d).created_at = now
       /\ \A e \in LatestRows(d) : e.by # w
       /\ Cardinality({i \in 1..Len(events) : events[i].tie}) < cap.ties
    THEN {FALSE, TRUE}
    ELSE {FALSE}

EventRow(d, a, w, t, m, c, msg) ==
    [domain |-> d, action |-> a, created_at |-> now, tie |-> t, by |-> w,
     is_matching_site |-> m, confidence |-> c, error |-> msg]

\* Faulty variant of insert_event: an upsert that overwrites the domain's latest row.
insert_event_upsert(d, a, w, m, c, msg) ==
    LET idx == {i \in 1..Len(events) : events[i].domain = d}
    IN  IF idx = {}
        THEN events' = Append(events, EventRow(d, a, w, FALSE, m, c, msg))
        ELSE LET last == CHOOSE i \in idx : \A j \in idx : j <= i
             IN  events' = [events EXCEPT ![last] = EventRow(d, a, w, FALSE, m, c, msg)]

\* db::insert_event: INSERT one row with created_at = NOW()
insert_event(d, a, w, m, c, msg) ==
    /\ Len(events) < cap.events
    /\ \E t \in TieChoices(d, w) :
          events' = Append(events, EventRow(d, a, w, t, m, c, msg))

\* Faulty variant of insert_queued_event: the Log-Processor marks the domain as
\* being classified.
insert_queued_event_as_classifying(d) ==
    insert_event(d, "classifying", "log-processor", FALSE, 0, <<>>)

\* log-processor db::insert_queued_event
insert_queued_event(d) == insert_event(d, "queued", "log-processor", FALSE, 0, <<>>)

\* db::count_consecutive_errors. The statement compares recent_events.rowid,
\* and the CTE recent_events selects the single column action: PostgreSQL
\* rejects the statement (undefined column) every time it is executed, so
\* fetch_one returns Err and the function returns DbError.
DbErr == "DbError"
count_consecutive_errors(d, limit) == DbErr

(***************************************************************************)
(* Event store: projections                                                *)
(***************************************************************************)
\* ensure_prompt: INSERT ... ON CONFLICT (hash) DO NOTHING
\* ensure_prompt's INSERT when no row of the hash is in its way: a new row
PromptsAfterPlainInsert(content, hash) ==
    prompts \cup {[id |-> Cardinality(prompts) + 1, content |-> content,
                   hash |-> hash]}

PromptsAfterEnsure(content, hash) ==
    IF \E p \in prompts : p.hash = hash
    THEN prompts
    ELSE prompts \cup {[id |-> Cardinality(prompts) + 1, content |-> content,
                        hash |-> hash]}

\* ensure_prompt: SELECT id FROM prompts WHERE hash = $1
PromptId(ps, hash) == (CHOOSE p \in ps : p.hash = hash).id

\* Faulty variant of upsert_domain: ON CONFLICT (domain) DO NOTHING keeps the
\* row of an earlier commit as it is.
upsert_domain_do_nothing(d) ==
    IF \E r \in domains : r.domain = d
    THEN domains
    ELSE domains \cup {[domain |-> d, last_updated |-> now]}

\* upsert_domain: INSERT ... ON CONFLICT (domain) DO UPDATE SET last_updated
upsert_domain(d) ==
    {r \in domains : r.domain # d} \cup {[domain |-> d, last_updated |-> now]}

\* Faulty variant of ClassificationRow: the TTL is not added to valid_until.
ClassificationRowWithoutTtl(d, type, conf, prompt_id, ttl_days) ==
    [domain |-> d, classification_type |-> type, confidence |-> conf,
     valid_on |-> now, valid_until |-> now, prompt_id |-> prompt_id]

\* insert_classification: valid_on = Utc::now(), valid_until = valid_on + ttl
ClassificationRow(d, type, conf, prompt_id, ttl_days) ==
    [domain |-> d, classification_type |-> type, confidence |-> conf,
     valid_on |-> now, valid_until |-> now + ttl_days, prompt_id |-> prompt_id]

\* The statements of update_projections, in order; each may return Err.
TxSteps == <<"begin", "ensure_prompt", "upsert_domain", "insert_classification",
             "commit">>
TxWrites == {"ensure_prompt", "upsert_domain", "insert_classification"}

\* Faulty variant of CommittedWrites: the statements run on the pool, each committed
\* on its own, so those before the failing one stay.
CommittedWritesAutocommit(failed) ==
    IF failed = 0 THEN TxWrites
    ELSE {TxSteps[k] : k \in 1..(failed - 1)} \cap TxWrites

\* The writes of the transaction that are in the tables once update_projections
\* has returned, when its statement number `failed` returned Err (0: none did).
\* Every `?` drops the Transaction, which rolls it back; only tx.commit()
\* makes the writes visible, all at once.
CommittedWrites(failed) ==
    IF failed = 0 THEN TxWrites ELSE {}

\* Faulty variant of update_projections: the domain row is not written.
update_projections_without_domain(d, type, conf, content, hash, ttl_days, failed) ==
    LET w == CommittedWrites(failed)
    IN  /\ prompts' = IF "ensure_prompt" \in w
                      THEN PromptsAfterEnsure(content, hash) ELSE prompts
        /\ domains' = domains
        /\ classifications' =
              IF "insert_classification" \in w
              THEN Append(classifications,
                          ClassificationRow(d, type, conf,
                              PromptId(PromptsAfterEnsure(content, hash), hash),
                              ttl_days))
              ELSE classifications

\* update_projections(pool, domain, classification_type, confidence, model,
\* prompt_content, prompt_hash, ttl_days)
update_projections(d, type, conf, content, hash, ttl_days, failed) ==
    LET w == CommittedWrites(failed)
        ps == IF "ensure_prompt" \in w
              THEN PromptsAfterEnsure(content, hash) ELSE prompts
    IN  /\ prompts' = ps
        /\ domains' = IF "upsert_domain" \in w THEN upsert_domain(d) ELSE domains
        /\ classifications' =
              IF "insert_classification" \in w
              THEN Append(classifications,
                          ClassificationRow(d, type, conf,
                              PromptId(PromptsAfterEnsure(content, hash), hash),
                              ttl_days))
              ELSE classifications

\* SELECT COUNT(*) FROM domain_classifications WHERE domain = $1 AND
\* valid_until > NOW()
ValidCount(d) ==
    Cardinality({i \in 1..Len(classifications) :
                    /\ classifications[i].domain = d
                    /\ classifications[i].valid_until > now})


(***************************************************************************)
(* Queue-Processor: run_classifier                                         *)
(***************************************************************************)
\* The ten error_type values of the classifier's error document
ErrorTypes == {"PromptFileReadError", "DomainFetchError", "DomainFetchTimeoutError",
               "HtmlParseError", "OllamaApiConnectionError", "OllamaApiTimeoutError",
               "OllamaApiError", "OllamaResponseParseError",
               "ClassificationParseError", "MetadataSerializationError"}

\* What one run of the classifier subprocess hands to run_classifier. Texts
\* are sequences of words.
Success(m, c) ==
    [shape |-> "success", result |-> "classified", match |-> m, conf |-> c,
     error_type |-> "", message |-> <<>>]
ErrorDoc(t, msg) ==
    [shape |-> "error", result |-> "error", match |-> FALSE, conf |-> 0,
     error_type |-> t, message |-> msg]
OtherResult(r) ==
    [shape |-> "success", result |-> r, match |-> FALSE, conf |-> 0,
     error_type |-> "", message |-> <<>>]
EmptyStdout ==
    [shape |-> "empty", result |-> "", match |-> FALSE, conf |-> 0,
     error_type |-> "", message |-> <<>>]
Garbage(text) ==
    [shape |-> "garbage", result |-> "", match |-> FALSE, conf |-> 0,
     error_type |-> "", message |-> text]
SpawnFailed ==
    [shape |-> "spawn_failed", result |-> "", match |-> FALSE, conf |-> 0,
     error_type |-> "", message |-> <<>>]

Ok(m, c) == [ok |-> TRUE, match |-> m, conf |-> c, kind |-> "", msg |-> <<>>]
Err(k, msg) == [ok |-> FALSE, match |-> FALSE, conf |-> 0, kind |-> k, msg |-> msg]

\* Faulty variant of run_classifier: a non-zero exit status of the subprocess is
\* taken as a failure, whatever it printed.
run_classifier_by_exit_status(out) ==
    IF cl.exit # 0 \/ out.shape # "success" \/ out.result # "classified"
    THEN Err("ClassifierError", <<"Classifier", "failed">>)
    ELSE Ok(out.match, out.conf)

\* run_classifier: Ok(output) or Err(ProcessorError)
run_classifier(out) ==
    IF out.shape = "spawn_failed" THEN Err("IoError", <<"spawn">>)
    ELSE IF out.shape = "empty"
    THEN Err("ClassifierError", <<"Classifier", "produced", "no", "output">>)
    ELSE IF out.shape = "success"
    THEN IF out.result = "classified"
         THEN Ok(out.match, out.conf)
         ELSE Err("ClassifierError",
                  <<"Classifier", "returned", "non-classified", "result", ":",
                    out.result>>)
    ELSE IF out.shape = "error" /\ out.error_type \in ErrorTypes
    THEN Err("ClassifierError", <<out.error_type, ":">> \o out.message)
    ELSE Err("ClassifierError",
             <<"Failed", "to", "parse", "classifier", "output", ":">> \o out.message)

\* str::contains on texts: pat occurs as a run of consecutive words of msg
Contains(msg, pat) ==
    \E i \in 0..(Len(msg) - Len(pat)) :
        \A k \in 1..Len(pat) : msg[i + k] = pat[k]

\* Faulty variant of PermanentPatterns: 403 is not taken as permanent.
PermanentPatternsWithout403 ==
    {<<"dns_resolution_failed">>, <<"invalid_domain">>,
     <<"http_fetch_failed", ":", "404">>}

PermanentPatterns ==
    {<<"dns_resolution_failed">>, <<"invalid_domain">>,
     <<"http_fetch_failed", ":", "404">>, <<"http_fetch_failed", ":", "403">>}

\* is_permanent_error in process_domain
is_permanent_error(e) ==
    IF e.kind = "ClassifierError"
    THEN \E pat \in PermanentPatterns : Contains(e.msg, pat)
    ELSE FALSE


(***************************************************************************)
(* Queue-Processor: one message handling (main loop and process_domain)    *)
(***************************************************************************)
Done(q) ==
    /\ pc' = [pc EXCEPT ![q] = "idle"]
    /\ cur' = [cur EXCEPT ![q] = NoDomain]
    /\ res' = [res EXCEPT ![q] = NoResult]

Goto(q, l) == pc' = [pc EXCEPT ![q] = l] /\ UNCHANGED <<cur, res>>

\* --nats-max-ack-pending, default_value = "1"
nats_max_ack_pending == 1

\* A second Queue-Processor process started with the same
\* --classification-type as the first.
SecondGaming == "gaming-2"

\* args.classification_type of a Queue-Processor process
classification_type(q) == IF q = SecondGaming THEN "gaming" ELSE q

\* consumer_name = format!("dns-smart-block-{}", args.classification_type):
\* processes of one type share one durable consumer.
consumer_name(q) == classification_type(q)

\* The messages of consumer c that are delivered and not yet acknowledged:
\* one per process of the consumer that has a message in hand.
AckPending(c) == {w \in DOMAIN pc : consumer_name(w) = c /\ cur[w] # NoDomain}

\* The copies of payload d the consumer c has not handed out.
Undelivered(c, d) ==
    pending[c][d] - Cardinality({w \in AckPending(c) : cur[w] = d})

\* Faulty variant of HasDeliveryCredit: the consumer hands out messages without
\* a limit on the unacknowledged ones.
HasDeliveryCreditUnlimited(c) == TRUE

\* max_ack_pending: args.nats_max_ack_pending in the consumer's Config; the
\* broker hands out a message only while fewer are unacknowledged.
HasDeliveryCredit(c) == Cardinality(AckPending(c)) < nats_max_ack_pending

\* Faulty variant of Receive: the handling consults the latest event first and skips
\* (acknowledges) a domain whose latest event is "error".
ReceiveSkippingErrors(q, d) ==
    /\ pc[q] = "idle"
    /\ Undelivered(consumer_name(q), d) > 0
    /\ HasDeliveryCredit(consumer_name(q))
    /\ pc' = [pc EXCEPT ![q] =
                 IF LatestRows(d) # {} /\ LastInserted(d).action = "error"
                 THEN "ack" ELSE "classifying"]
    /\ cur' = [cur EXCEPT ![q] = d]
    /\ UNCHANGED <<store, pending, res, lpv, env>>

\* messages.next(): the consumer hands out one unacknowledged message; the
\* payload deserializes and process_domain starts. No store read precedes
\* the first insert.
Receive(q, d) ==
    /\ pc[q] = "idle"
    /\ Undelivered(consumer_name(q), d) > 0
    /\ HasDeliveryCredit(consumer_name(q))
    /\ pc' = [pc EXCEPT ![q] = "classifying"]
    /\ cur' = [cur EXCEPT ![q] = d]
    /\ UNCHANGED <<store, pending, res, lpv, env>>

\* Faulty variant of ReceivePoison: the malformed message is handed back to the
\* broker.
ReceivePoisonNak(q) ==
    /\ pc[q] = "idle"
    /\ Undelivered(consumer_name(q), Poison) > 0
    /\ HasDeliveryCredit(consumer_name(q))
    /\ pc' = [pc EXCEPT ![q] = "nak"]
    /\ cur' = [cur EXCEPT ![q] = Poison]
    /\ UNCHANGED <<store, pending, res, lpv, env>>

\* messages.next() hands out a message whose payload serde_json::from_slice
\* rejects: process_domain is not called and the message is acknowledged.
ReceivePoison(q) ==
    /\ pc[q] = "idle"
    /\ Undelivered(consumer_name(q), Poison) > 0
    /\ HasDeliveryCredit(consumer_name(q))
    /\ pc' = [pc EXCEPT ![q] = "ack"]
    /\ cur' = [cur EXCEPT ![q] = Poison]
    /\ UNCHANGED <<store, pending, res, lpv, env>>

\* Some other client of the broker publishes bytes that are not a
\* DomainMessage on the subject; the stream keeps them for every consumer.
PublishRaw ==
    /\ \A q \in DOMAIN pending : pending[q][Poison] < MaxPending
    /\ pending' = [q \in DOMAIN pending |-> [pending[q] EXCEPT ![Poison] = @ + 1]]
    /\ UNCHANGED <<store, qpv, lpv, env>>

\* Faulty variant of InsertClassifying: a failed insert of the `classifying`
\* event is logged and the classifier is run all the same.
InsertClassifyingFailOpen(q) ==
    /\ pc[q] = "classifying"
    /\ \/ insert_event(cur[q], "classifying", q, FALSE, 0, <<>>)
       \/ UNCHANGED events
    /\ Goto(q, "run")
    /\ UNCHANGED <<proj, pending, lpv, env>>

\* insert_event(.., "classifying", ..).await?
InsertClassifying(q) ==
    /\ pc[q] = "classifying"
    /\ \/ /\ insert_event(cur[q], "classifying", q, FALSE, 0, <<>>)
          /\ Goto(q, "run")
       \/ /\ UNCHANGED events
          /\ Goto(q, "nak")
    /\ UNCHANGED <<proj, pending, lpv, env>>

\* match run_classifier(domain, args).await
RunClassifier(q, out) ==
    /\ pc[q] = "run"
    /\ res' = [res EXCEPT ![q] = run_classifier(out)]
    /\ pc' = [pc EXCEPT ![q] = IF run_classifier(out).ok THEN "classified" ELSE "error"]
    /\ UNCHANGED <<store, pending, cur, lpv, env>>

\* Faulty variant of MatchesCriteria: the confidence threshold is not applied.
MatchesIgnoringConfidence(r) == r.match

\* the condition under which process_domain updates the projections
MatchesCriteria(r) == r.match /\ r.conf >= MinConfidence

\* Faulty variant of InsertClassified: a failed insert of the `classified` event
\* is logged and the handling goes on to the projections.
InsertClassifiedFailOpen(q) ==
    /\ pc[q] = "classified"
    /\ \/ insert_event(cur[q], "classified", q, res[q].match, res[q].conf, <<>>)
       \/ UNCHANGED events
    /\ Goto(q, IF MatchesCriteria(res[q]) THEN "project" ELSE "ack")
    /\ UNCHANGED <<proj, pending, lpv, env>>

\* Ok arm: insert_event(.., "classified", ..).await?, then the threshold test
InsertClassified(q) ==
    /\ pc[q] = "classified"
    /\ \/ /\ insert_event(cur[q], "classified", q, res[q].match, res[q].conf, <<>>)
          /\ Goto(q, IF MatchesCriteria(res[q]) THEN "project" ELSE "ack")
       \/ /\ UNCHANGED events
          /\ Goto(q, "nak")
    /\ UNCHANGED <<proj, pending, lpv, env>>

\* db::update_projections(..).await?; the classifier reports the hash of the
\* template file the Queue-Processor was started with
UpdateProjections(q) ==
    /\ pc[q] = "project"
    /\ \E failed \in 0..Len(TxSteps) :
          /\ update_projections(cur[q], classification_type(q), res[q].conf,
                                prompt_template(q),
                                compute_prompt_hash(prompt_template(q)), args_ttl_days,
                                failed)
          /\ Goto(q, IF failed = 0 THEN "ack" ELSE "nak")
    /\ UNCHANGED <<events, pending, lpv, env>>

\* Faulty variant of PromptInsertBlocked: no unique index on prompts.hash makes
\* an insert wait.
PromptInsertNeverBlocked(q) == FALSE

\* ON CONFLICT (hash): the INSERT of ensure_prompt waits while another open
\* transaction holds an uncommitted row of the same hash.
PromptInsertBlocked(q) ==
    \E o \in DOMAIN pc \ {q} :
        /\ pc[o] = "tx_inserted"
        /\ compute_prompt_hash(prompt_template(o))
               = compute_prompt_hash(prompt_template(q))

\* update_projections statement by statement, for Queue-Processors whose
\* transactions overlap. ensure_prompt either finds the committed row of the
\* hash and inserts nothing ("tx_existing") or holds its own uncommitted row
\* ("tx_inserted"); a statement may return Err, which rolls back.
TxEnsurePrompt(q) ==
    /\ pc[q] = "project"
    /\ \/ /\ ~PromptInsertBlocked(q)
          /\ Goto(q, IF \E r \in prompts :
                           r.hash = compute_prompt_hash(prompt_template(q))
                     THEN "tx_existing" ELSE "tx_inserted")
       \/ Goto(q, "nak")
    /\ UNCHANGED <<store, pending, lpv, env>>

\* upsert_domain, insert_classification and tx.commit(): the writes of the
\* transaction become visible together, or a statement returns Err and the
\* transaction is rolled back.
TxCommit(q) ==
    /\ pc[q] \in {"tx_existing", "tx_inserted"}
    /\ \/ LET hash == compute_prompt_hash(prompt_template(q))
              ps == IF pc[q] = "tx_inserted"
                    THEN PromptsAfterPlainInsert(prompt_template(q), hash)
                    ELSE prompts
          IN  /\ prompts' = ps
              /\ domains' = upsert_domain(cur[q])
              /\ classifications' =
                    Append(classifications,
                           ClassificationRow(cur[q], classification_type(q),
                                             res[q].conf,
                                             PromptId(ps, hash), args_ttl_days))
              /\ Goto(q, "ack")
       \/ /\ UNCHANGED proj
          /\ Goto(q, "nak")
    /\ UNCHANGED <<events, pending, lpv, env>>

\* Faulty variant of InsertError: the `error` event is appended without the
\* message of the failure.
InsertErrorWithoutMessage(q) ==
    /\ pc[q] = "error"
    /\ \/ /\ insert_event(cur[q], "error", q, FALSE, 0, <<>>)
          /\ Goto(q, IF is_permanent_error(res[q]) THEN "ack" ELSE "count")
       \/ /\ UNCHANGED events
          /\ Goto(q, "nak")
    /\ UNCHANGED <<proj, pending, lpv, env>>

\* Err arm: insert_event(.., "error", ..).await?, then is_permanent_error
InsertError(q) ==
    /\ pc[q] = "error"
    /\ \/ /\ insert_event(cur[q], "error", q, FALSE, 0, <<res[q].kind>> \o res[q].msg)
          /\ Goto(q, IF is_permanent_error(res[q]) THEN "ack" ELSE "count")
       \/ /\ UNCHANGED events
          /\ Goto(q, "nak")
    /\ UNCHANGED <<proj, pending, lpv, env>>

\* Faulty variant of AfterCount: a failed count is swallowed and the message
\* acknowledged.
AfterCountSwallowingErrors(n) ==
    IF n = DbErr THEN "ack"
    ELSE IF n >= 3 THEN "ack" ELSE "nak"

\* what process_domain returns after db::count_consecutive_errors(.., 10).await?
AfterCount(n) ==
    IF n = DbErr THEN "nak"
    ELSE IF n >= 3 THEN "ack" ELSE "nak"

CountErrors(q) ==
    /\ pc[q] = "count"
    /\ Goto(q, AfterCount(count_consecutive_errors(cur[q], 10)))
    /\ UNCHANGED <<store, pending, lpv, env>>

\* Ok(_) => message.ack(): the consumer drops the message
Ack(q) ==
    /\ pc[q] = "ack"
    /\ pending' = [pending EXCEPT ![consumer_name(q)][cur[q]] = @ - 1]
    /\ Done(q)
    /\ UNCHANGED <<store, lpv, env>>

\* Err(e) => message.ack_with(Nak): the consumer keeps the message and
\* delivers it again
Nak(q) ==
    /\ pc[q] = "nak"
    /\ Done(q)
    /\ UNCHANGED <<store, pending, lpv, env>>

\* The process dies in the middle of a handling and is started again; the
\* message was not acknowledged, so the consumer delivers it again.
Crash(q) ==
    /\ pc[q] \notin {"idle", "nak"}
    /\ Done(q)
    /\ UNCHANGED <<store, pending, lpv, env>>

(***************************************************************************)
(* Log-Processor: one log line (main loop)                                 *)
(***************************************************************************)
\* Faulty variant of should_queue_domain: a failed domain is queued again.
should_queue_domain_retrying(action, count) ==
    CASE action = "none" -> TRUE
      [] action \in {"queued", "classifying"} -> FALSE
      [] action = "classified" -> count = 0
      [] action = "error" -> TRUE
      [] OTHER -> TRUE

\* should_queue_domain, given the action of the row its first query returned
\* ("none": no row) and the count its second query returned
should_queue_domain(action, count) ==
    CASE action = "none" -> TRUE
      [] action \in {"queued", "classifying"} -> FALSE
      [] action = "classified" -> count = 0
      [] action = "error" -> FALSE
      [] OTHER -> TRUE

\* What the dnsdist API does when is_domain_blocked calls it: whether
\* request.send() returns a response, its status, whether response.text()
\* returns the body, and the domains the body names.
Reply(send_ok, status, body_ok, body) ==
    [configured |-> TRUE, send_ok |-> send_ok, status |-> status,
     body_ok |-> body_ok, body |-> body]

\* --dnsdist-api-url is not given: dnsdist_client is None and nothing is asked
NotConfigured ==
    [configured |-> FALSE, send_ok |-> FALSE, status |-> 0, body_ok |-> FALSE,
     body |-> {}]

\* no question was put for the line
NoReply ==
    [configured |-> FALSE, send_ok |-> FALSE, status |-> 0 - 1, body_ok |-> FALSE,
     body |-> {}]

\* StatusCode::is_success
is_success(status) == status >= 200 /\ status <= 299

\* Faulty variant of is_domain_blocked: a status that is not a success is
\* taken as "blocked".
is_domain_blocked_failing_closed(reply, d) ==
    IF ~reply.send_ok THEN "err"
    ELSE IF ~is_success(reply.status) THEN "true"
    ELSE IF ~reply.body_ok THEN "err"
    ELSE IF d \in reply.body THEN "true" ELSE "false"

\* DnsdistClient::is_domain_blocked: "true" for Ok(true), "false" for
\* Ok(false), "err" for Err
is_domain_blocked(reply, d) ==
    IF ~reply.send_ok THEN "err"
    ELSE IF ~is_success(reply.status) THEN "false"
    ELSE IF ~reply.body_ok THEN "err"
    ELSE IF d \in reply.body THEN "true" ELSE "false"

\* the API is configured and answers with a list, which names the domains
\* of the model or none
BlockedOrNot == {Reply(TRUE, 200, TRUE, {}), Reply(TRUE, 200, TRUE, AllDomains)}

\* every way the optional check can go
DnsdistReplies ==
    BlockedOrNot
    \cup {NotConfigured,
          Reply(FALSE, 0, FALSE, {}),
          Reply(TRUE, 500, FALSE, {}),
          Reply(TRUE, 401, FALSE, {}),
          Reply(TRUE, 200, FALSE, {})}

LPIdle ==
    /\ lp_pc' = "idle"
    /\ lp_dom' = NoDomain
    /\ lp_sq' = "-"

\* Ok(false), or dnsdist reports the domain as blocked: seen.insert; continue
LPSkip(d) ==
    /\ seen' = seen \cup {d}
    /\ LPIdle

\* Faulty variant of LPProceed: the line goes to the publish without the
\* insert of the `queued` event.
LPProceedWithoutInsert(d, sq) ==
    \E reply \in cap.api :
        /\ lp_api' = reply
        /\ IF reply.configured /\ is_domain_blocked(reply, d) = "true"
           THEN LPSkip(d)
           ELSE /\ lp_pc' = "publish"
                /\ lp_dom' = d
                /\ lp_sq' = sq
                /\ UNCHANGED seen

\* After should_queue_domain returned sq ("true": Ok(true), "err": Err, and
\* the line goes on all the same): the optional dnsdist check (blocked: the
\* API is configured and reports the domain as blocked).
LPProceed(d, sq) ==
    \E reply \in cap.api :
        /\ lp_api' = reply
        /\ IF reply.configured /\ is_domain_blocked(reply, d) = "true"
           THEN LPSkip(d)
           ELSE /\ lp_pc' = "insert"
                /\ lp_dom' = d
                /\ lp_sq' = sq
                /\ UNCHANGED seen

\* A line that parses to domain d, not in seen_domains: the first query of
\* should_queue_domain
LPLine(d) ==
    /\ lp_pc = "idle"
    /\ d \notin seen
    /\ \/ LPProceed(d, "err")
       \/ /\ LatestRows(d) = {}
          /\ IF should_queue_domain("none", 0)
             THEN LPProceed(d, "true") ELSE LPSkip(d) /\ lp_api' = NoReply
       \/ \E row \in LatestRows(d) :
             IF row.action = "classified"
             THEN /\ lp_pc' = "check_valid"
                  /\ lp_dom' = d
                  /\ lp_api' = NoReply
                  /\ UNCHANGED <<lp_sq, seen>>
             ELSE IF should_queue_domain(row.action, 0)
                  THEN LPProceed(d, "true") ELSE LPSkip(d) /\ lp_api' = NoReply
    /\ UNCHANGED <<store, pending, qpv, restarts, env>>

\* the second query of should_queue_domain (latest action "classified")
LPCheckValid ==
    /\ lp_pc = "check_valid"
    /\ \/ LPProceed(lp_dom, "err")
       \/ IF should_queue_domain("classified", ValidCount(lp_dom))
          THEN LPProceed(lp_dom, "true") ELSE LPSkip(lp_dom) /\ lp_api' = NoReply
    /\ UNCHANGED <<store, pending, qpv, restarts, env>>

\* db::insert_queued_event; a failure is logged and the line goes on
LPInsert ==
    /\ lp_pc = "insert"
    /\ \/ insert_queued_event(lp_dom)
       \/ UNCHANGED events
    /\ lp_pc' = "publish"
    /\ UNCHANGED <<proj, pending, qpv, lp_dom, lp_sq, lp_api, seen, restarts, env>>

\* Faulty variant of LPPublish: a published domain is not marked as seen.
LPPublishWithoutSeen ==
    /\ lp_pc = "publish"
    /\ \/ /\ \A q \in DOMAIN pending : pending[q][lp_dom] < MaxPending
          /\ pending' = [q \in DOMAIN pending |->
                            [pending[q] EXCEPT ![lp_dom] = @ + 1]]
          /\ UNCHANGED seen
       \/ UNCHANGED <<pending, seen>>
    /\ LPIdle
    /\ lp_api' = NoReply
    /\ UNCHANGED <<store, qpv, restarts, env>>

\* queue.publish_domain: the stream keeps the message for every consumer
LPPublish ==
    /\ lp_pc = "publish"
    /\ \/ /\ \A q \in DOMAIN pending : pending[q][lp_dom] < MaxPending
          /\ pending' = [q \in DOMAIN pending |->
                            [pending[q] EXCEPT ![lp_dom] = @ + 1]]
          /\ seen' = seen \cup {lp_dom}
       \/ UNCHANGED <<pending, seen>>
    /\ LPIdle
    /\ lp_api' = NoReply
    /\ UNCHANGED <<store, qpv, restarts, env>>

\* The Log-Processor is started again: seen_domains lives in memory only.
LPRestart ==
    /\ restarts < MaxRestarts
    /\ restarts' = restarts + 1
    /\ seen' = {}
    /\ LPIdle
    /\ lp_api' = NoReply
    /\ UNCHANGED <<store, pending, qpv, env>>

\* Time passes.
Tick ==
    /\ now < MaxTime
    /\ now' = now + 1
    /\ UNCHANGED <<store, pending, qpv, lpv, cap, args_ttl_days, lp_line, wire, resp, cl>>

(***************************************************************************)
(* Blocklist-Server: get_blocked_domains                                   *)
(***************************************************************************)
None == 0 - 1

\* the order of ORDER BY d.domain ASC on the domain names of the model
DomainRank == [d \in AllDomains |->
                  CASE d = "a.com" -> 1 [] d = "b.com" -> 2 [] OTHER -> 3]

\* Faulty variant of Covers: the end of the interval is taken as included.
CoversClosedInterval(dc, type, t) ==
    /\ dc.classification_type = type
    /\ dc.valid_on <= t
    /\ dc.valid_until >= t

\* WHERE dc.classification_type = $1 AND dc.valid_on <= $2 AND dc.valid_until > $2
Covers(dc, type, t) ==
    /\ dc.classification_type = type
    /\ dc.valid_on <= t
    /\ dc.valid_until > t

\* FROM domains d INNER JOIN domain_classifications dc ON d.domain = dc.domain:
\* d.domain of every joined row that passes the WHERE clause
JoinRows(type, t) ==
    LET sel == SelectSeq(classifications,
                   LAMBDA dc : /\ Covers(dc, type, t)
                               /\ \E d \in domains : d.domain = dc.domain)
    IN  [i \in 1..Len(sel) |-> sel[i].domain]

\* SELECT DISTINCT
RECURSIVE Distinct(_)
Distinct(seq) ==
    IF Len(seq) = 0 THEN <<>>
    ELSE LET front == Distinct(SubSeq(seq, 1, Len(seq) - 1))
             x == seq[Len(seq)]
         IN  IF \E i \in 1..Len(front) : front[i] = x
             THEN front ELSE Append(front, x)

\* ORDER BY d.domain ASC
RECURSIVE OrderByDomain(_)
OrderByDomain(seq) ==
    IF Len(seq) = 0 THEN <<>>
    ELSE LET front == OrderByDomain(SubSeq(seq, 1, Len(seq) - 1))
             x == seq[Len(seq)]
             k == Cardinality({i \in 1..Len(front) :
                                  DomainRank[front[i]] <= DomainRank[x]})
         IN  SubSeq(front, 1, k) \o <<x>> \o SubSeq(front, k + 1, Len(front))

\* get_blocked_domains(pool, classification_type, at_time)
get_blocked_domains(type, at_time) ==
    LET check_time == IF at_time = None THEN now ELSE at_time
    IN  OrderByDomain(Distinct(JoinRows(type, check_time)))

\* BlocklistParams.at_time: the request has no "at" parameter
NoAt == [text |-> "absent", time |-> None]

\* an "at" parameter that is the RFC 3339 text of the time t
Rfc3339(t) == [text |-> "rfc3339", time |-> t]

\* "at" parameters DateTime::parse_from_rfc3339 rejects: an empty value, a
\* word, and an ISO 8601 date without a time of day
MalformedAt == {[text |-> txt, time |-> None] : txt \in {"", "yesterday", "2024-01-01"}}

\* DateTime::parse_from_rfc3339(time_str)
parse_from_rfc3339(at) ==
    IF at.text = "rfc3339" THEN [ok |-> TRUE, time |-> at.time]
    ELSE [ok |-> FALSE, time |-> None]

\* domains.join("\n")
RECURSIVE join(_)
join(list) ==
    IF Len(list) = 0 THEN <<>>
    ELSE IF Len(list) = 1 THEN list
    ELSE join(SubSeq(list, 1, Len(list) - 1)) \o <<"\n", list[Len(list)]>>

\* before the first request
NoResponse == [status |-> 0, body |-> <<>>]

\* Faulty variant of get_blocklist: the store is queried before the "at"
\* parameter is parsed.
get_blocklist_querying_first(type, at, db) ==
    IF db = DbErr
    THEN [status |-> 500, body |-> <<"Internal server error: ", DbErr>>]
    ELSE IF at # NoAt /\ ~parse_from_rfc3339(at).ok
    THEN [status |-> 400,
          body |-> <<"Invalid time format. Use ISO 8601/RFC 3339 format: ", at.text>>]
    ELSE [status |-> 200,
          body |-> join(get_blocked_domains(type,
                           IF at = NoAt THEN None ELSE parse_from_rfc3339(at).time))]

\* get_blocklist: the response to GET /blocklist?type=..&at=.., where db is
\* what db::get_blocked_domains returns if it is called (Ok, or an Err)
get_blocklist(type, at, db) ==
    IF at # NoAt /\ ~parse_from_rfc3339(at).ok
    THEN [status |-> 400,
          body |-> <<"Invalid time format. Use ISO 8601/RFC 3339 format: ", at.text>>]
    ELSE IF db = DbErr
    THEN [status |-> 500, body |-> <<"Internal server error: ", DbErr>>]
    ELSE [status |-> 200,
          body |-> join(get_blocked_domains(type,
                           IF at = NoAt THEN None ELSE parse_from_rfc3339(at).time))]

\* One request to the handler get_blocklist
GetBlocklist(type, at) ==
    /\ \E db \in {"Ok", DbErr} : resp' = get_blocklist(type, at, db)
    /\ UNCHANGED <<store, pending, qpv, lpv, now, cap, args_ttl_days, lp_line, wire, cl>>

(***************************************************************************)
(* Classifier: one run of the classifier process (main, run_classification, *)
(* fetch_domain, classify_with_llm)                                        *)
(***************************************************************************)
\* let max_attempts = 3
max_attempts == 3

\* 500 * (1 << (attempt - 1)): the factor of the first delay, in ms
base_delay_ms == 500

NoError == [variant |-> "-", is_timeout |-> FALSE, is_connect |-> FALSE,
            is_status |-> FALSE]

\* ClassifierError::HttpError(reqwest::Error) with what the error says of itself
HttpError(kind) ==
    [variant |-> "HttpError", is_timeout |-> kind = "timeout",
     is_connect |-> kind = "connect", is_status |-> kind = "status"]

\* ClassifierError::JsonError(serde_json::Error)
JsonError == [variant |-> "JsonError", is_timeout |-> FALSE, is_connect |-> FALSE,
              is_status |-> FALSE]

\* ClassifierError::PromptFileReadError(std::io::Error)
PromptFileReadError == [variant |-> "PromptFileReadError", is_timeout |-> FALSE,
                        is_connect |-> FALSE, is_status |-> FALSE]

\* the kinds of reqwest::Error of a request that got no response
RequestErrorKinds == {"timeout", "connect", "other"}

\* ClassifierError::to_error_type; the error does not say whether the fetch
\* of the domain or the call of the Ollama API met it
to_error_type(e) ==
    CASE e.variant = "PromptFileReadError" -> "PromptFileReadError"
      [] e.variant = "JsonError" -> "MetadataSerializationError"
      [] OTHER ->
           IF e.is_timeout THEN "DomainFetchTimeoutError"
           ELSE IF e.is_connect THEN "OllamaApiConnectionError"
           ELSE IF e.is_status THEN "OllamaApiError"
           ELSE "DomainFetchError"

\* SiteMetadata of extract_metadata(domain, html, status)
SiteMetadata(status) == [http_status |-> status, fetch_error |-> FALSE]

\* SiteMetadata::from_fetch_error(domain, error)
from_fetch_error == [http_status |-> 0, fetch_error |-> TRUE]

NoMetadata == [http_status |-> None, fetch_error |-> FALSE]

\* ClassificationOutput
ClassificationOutput(m, c, status) ==
    [result |-> "classified", is_matching_site |-> m, confidence |-> c,
     http_status |-> status, error_type |-> "-", metadata |-> TRUE]

\* ErrorOutput; metadata: whether PartialMetadata is there
ErrorOutput(type, partial) ==
    [result |-> "error", is_matching_site |-> FALSE, confidence |-> 0,
     http_status |-> None, error_type |-> type, metadata |-> partial]

NoOutput == [result |-> "-", is_matching_site |-> FALSE, confidence |-> 0,
             http_status |-> None, error_type |-> "-", metadata |-> FALSE]

\* to_json().unwrap_or_else(..): the text of the document, or the fixed
\* document of a failed serialization
to_json(doc, ser_ok) ==
    IF ser_ok THEN <<"json", doc>>
    ELSE <<"json", [error |-> IF doc.result = "classified"
                              THEN "Failed to serialize output"
                              ELSE "Failed to serialize error output"]>>

\* The exit status of the process is not yet there.
Running == 0 - 1

NotStarted ==
    [pc |-> "idle", output |-> "-", attempt |-> 0, slept |-> <<>>,
     last_error |-> NoError, fetch_ok |-> FALSE, status |-> None,
     metadata |-> NoMetadata, result |-> NoOutput, stdout |-> <<>>,
     stderr |-> FALSE, exit |-> Running]

\* CliArgs::parse(): the process starts with --output mode
ClStart(mode) ==
    /\ cl.pc = "idle"
    /\ cl' = [cl EXCEPT !.pc = "prompt", !.output = mode]
    /\ UNCHANGED <<store, pending, qpv, lpv, now, cap, args_ttl_days, lp_line, wire, resp>>

\* std::fs::read_to_string(&args.prompt_template).map_err(..)?
ClReadPrompt(ok) ==
    /\ cl.pc = "prompt"
    /\ cl' = IF ok THEN [cl EXCEPT !.pc = "client"]
             ELSE [cl EXCEPT !.pc = "output",
                             !.result = ErrorOutput(
                                 to_error_type(PromptFileReadError), FALSE)]
    /\ UNCHANGED <<store, pending, qpv, lpv, now, cap, args_ttl_days, lp_line, wire, resp>>

\* fetch_domain: reqwest::Client::builder()...build()?
ClBuildClient(ok) ==
    /\ cl.pc = "client"
    /\ cl' = IF ok THEN [cl EXCEPT !.pc = "loop"]
             ELSE [cl EXCEPT !.pc = "fetched", !.fetch_ok = FALSE,
                             !.last_error = HttpError("other")]
    /\ UNCHANGED <<store, pending, qpv, lpv, now, cap, args_ttl_days, lp_line, wire, resp>>

\* let delay_ms = 500 * (1 << (attempt - 1))
delay_ms(attempt) == base_delay_ms * (2 ^ (attempt - 1))

\* One pass of `for attempt in 0..max_attempts`: the sleep before a retry,
\* the request, and the reading of the body.
FetchAttempt(c, outcome) ==
    LET waited == IF c.attempt > 0 THEN Append(c.slept, delay_ms(c.attempt))
                  ELSE c.slept
    IN  CASE outcome.kind = "response" ->
               [c EXCEPT !.slept = waited, !.pc = "fetched", !.fetch_ok = TRUE,
                         !.status = outcome.status]
          [] outcome.kind = "body_read_failed" ->
               [c EXCEPT !.slept = waited, !.pc = "fetched", !.fetch_ok = FALSE,
                         !.last_error = HttpError(outcome.error)]
          [] OTHER ->
               [c EXCEPT !.slept = waited, !.attempt = @ + 1,
                         !.last_error = HttpError(outcome.error)]

\* what one request of fetch_domain may meet
FetchOutcomes ==
    {[kind |-> "response", status |-> st, error |-> "-"] : st \in {200, 404}}
    \cup {[kind |-> "body_read_failed", status |-> None, error |-> "other"]}
    \cup {[kind |-> "request_failed", status |-> None, error |-> k] :
             k \in RequestErrorKinds}

ClFetchAttempt(outcome) ==
    /\ cl.pc = "loop"
    /\ cl.attempt < max_attempts
    /\ cl' = FetchAttempt(cl, outcome)
    /\ UNCHANGED <<store, pending, qpv, lpv, now, cap, args_ttl_days, lp_line, wire, resp>>

\* All retries exhausted: Err(last_error.unwrap().into())
ClFetchExhausted ==
    /\ cl.pc = "loop"
    /\ cl.attempt >= max_attempts
    /\ cl' = [cl EXCEPT !.pc = "fetched", !.fetch_ok = FALSE]
    /\ UNCHANGED <<store, pending, qpv, lpv, now, cap, args_ttl_days, lp_line, wire, resp>>

\* match fetch_domain(..).await: the metadata the LLM is asked about.
\* extract_metadata has no path that returns Err, so its unwrap_or_else arm
\* is never taken.
MetadataAfterFetch(c) ==
    [c EXCEPT !.pc = "llm",
              !.metadata = IF c.fetch_ok THEN SiteMetadata(c.status)
                           ELSE from_fetch_error]

ClMetadata ==
    /\ cl.pc = "fetched"
    /\ cl' = MetadataAfterFetch(cl)
    /\ UNCHANGED <<store, pending, qpv, lpv, now, cap, args_ttl_days, lp_line, wire, resp>>

\* what classify_with_llm may meet: the metadata does not serialize, the
\* request gets no response, Ollama answers with an error status, the body of
\* the answer is not the expected JSON, the text of the LLM is not a
\* Classification, or it is one
LlmOutcomes ==
    {[kind |-> "error", error |-> e, m |-> FALSE, c |-> 0] :
        e \in {JsonError} \cup {HttpError(k) : k \in RequestErrorKinds \cup {"status"}}}
    \cup {[kind |-> "verdict", error |-> NoError, m |-> m, c |-> c] :
             m \in BOOLEAN, c \in {7, 8}}

\* classify_with_llm(..).await.map_err(..)? and the Ok(ClassificationOutput)
ClClassify(outcome) ==
    /\ cl.pc = "llm"
    /\ cl' = [cl EXCEPT
                !.pc = "output",
                !.result =
                    IF outcome.kind = "verdict"
                    THEN ClassificationOutput(outcome.m, outcome.c,
                                              cl.metadata.http_status)
                    ELSE ErrorOutput(to_error_type(outcome.error), TRUE)]
    /\ UNCHANGED <<store, pending, qpv, lpv, now, cap, args_ttl_days, lp_line, wire, resp>>

\* The exit status of main: std::process::exit(1) is called in the
\* human-readable Err arm only; everywhere else main returns.
ExitStatus(mode, result) ==
    IF mode # "json" /\ result.result = "error" THEN 1 ELSE 0

\* match args.output.as_str(): what main prints, and how the process ends
ClOutput(ser_ok) ==
    /\ cl.pc = "output"
    /\ cl' = [cl EXCEPT
                !.pc = "exited",
                !.stdout = IF cl.output = "json" THEN <<to_json(cl.result, ser_ok)>>
                           ELSE IF cl.result.result = "classified"
                           THEN <<<<"text", cl.result>>>>
                           ELSE <<>>,
                !.stderr = (cl.output # "json" /\ cl.result.result = "error"),
                !.exit = ExitStatus(cl.output, cl.result)]
    /\ UNCHANGED <<store, pending, qpv, lpv, now, cap, args_ttl_days, lp_line, wire, resp>>

(***************************************************************************)
(* Log-Processor: LogParser (log_parser.rs)                                *)
(***************************************************************************)
\* A text is a sequence of characters. The characters of the model: enough
\* letters to spell the names below, two digits, and an underscore as a
\* character that no pattern takes as part of a domain.
UpperCase == {"A", "C", "E", "L", "M", "O", "P", "X"}
Alnum == {"a", "b", "c", "e", "h", "i", "l", "m", "n", "o", "p", "r", "s",
          "t", "w", "x", "y", "0", "1"} \cup UpperCase

to_lowercase_char(c) ==
    CASE c = "A" -> "a" [] c = "C" -> "c" [] c = "E" -> "e" [] c = "L" -> "l"
      [] c = "M" -> "m" [] c = "O" -> "o" [] c = "P" -> "p" [] c = "X" -> "x"
      [] OTHER -> c

\* str::to_lowercase
to_lowercase(s) == [i \in 1..Len(s) |-> to_lowercase_char(s[i])]

\* str::contains(char), str::starts_with(char), str::ends_with
contains(s, c) == \E i \in 1..Len(s) : s[i] = c
starts_with(s, c) == Len(s) > 0 /\ s[1] = c
ends_with(s, suffix) ==
    /\ Len(s) >= Len(suffix)
    /\ SubSeq(s, Len(s) - Len(suffix) + 1, Len(s)) = suffix

Localhost == <<"l", "o", "c", "a", "l", "h", "o", "s", "t">>
DotLocal == <<".", "l", "o", "c", "a", "l">>
DotLocalhost == <<".">> \o Localhost
DotInternal == <<".", "i", "n", "t", "e", "r", "n", "a", "l">>

\* max domain length is 253 characters
MaxDomainLength == 253
\* a label of the patterns: one character, or two with up to 61 between them
MaxLabelLength == 63

\* Faulty variant of is_valid_domain: names under .internal are let through.
is_valid_domain_without_internal(domain) ==
    /\ contains(domain, ".")
    /\ ~(starts_with(domain, ".") \/ ends_with(domain, <<".">>)
           \/ starts_with(domain, "-") \/ ends_with(domain, <<"-">>))
    /\ ~(Len(domain) > MaxDomainLength)
    /\ ~contains(domain, " ")
    /\ LET lower == to_lowercase(domain)
       IN  ~(\/ lower = Localhost
             \/ ends_with(lower, DotLocal)
             \/ ends_with(lower, DotLocalhost))

\* is_valid_domain
is_valid_domain(domain) ==
    /\ contains(domain, ".")
    /\ ~(starts_with(domain, ".") \/ ends_with(domain, <<".">>)
           \/ starts_with(domain, "-") \/ ends_with(domain, <<"-">>))
    /\ ~(Len(domain) > MaxDomainLength)
    /\ ~contains(domain, " ")
    /\ LET lower == to_lowercase(domain)
       IN  ~(\/ lower = Localhost
             \/ ends_with(lower, DotLocal)
             \/ ends_with(lower, DotLocalhost)
             \/ ends_with(lower, DotInternal))

\* [a-zA-Z0-9]([a-zA-Z0-9\-]{0,61}[a-zA-Z0-9])? at position i of s: the
\* lengths the label can have, and the one the greedy match takes
LabelLengths(s, i) ==
    {k \in 1..MaxLabelLength :
        /\ i + k - 1 <= Len(s)
        /\ s[i] \in Alnum
        /\ s[i + k - 1] \in Alnum
        /\ \A j \in i..(i + k - 1) : s[j] \in Alnum \cup {"-"}}
GreedyLabel(s, i) ==
    IF LabelLengths(s, i) = {} THEN 0
    ELSE CHOOSE k \in LabelLengths(s, i) : \A m \in LabelLengths(s, i) : m <= k

\* (\.label)* after a match that ends at position e: where the greedy match ends
RECURSIVE GreedyEnd(_, _)
GreedyEnd(s, e) ==
    IF e + 1 <= Len(s) /\ s[e + 1] = "." /\ GreedyLabel(s, e + 2) > 0
    THEN GreedyEnd(s, e + 1 + GreedyLabel(s, e + 2))
    ELSE e

\* The capture group of the domain at the start of text s, with nothing
\* required after it: label(\.label)*, greedy. <<>>: the group does not match.
GreedyCapture(s) ==
    IF GreedyLabel(s, 1) = 0 THEN <<>>
    ELSE SubSeq(s, 1, GreedyEnd(s, GreedyLabel(s, 1)))

\* A line is a sequence of fields. A field is a run of characters without
\* whitespace (text), with what stands before it (pre) and after it (post)
\* in the line; pre and post are taken whole.
DnsdistPre == "Query from 192.168.1.100:54321: "
ClientPre == "client 192.168.1.1#53210 ("
QueryPre == "query: "
JournalPre == "QUERY="
DatePre == "2024-01-16 10:00:00 "
Pres == {DnsdistPre, ClientPre, QueryPre, JournalPre, DatePre}
Posts == {" IN A", ")", "): ", " A query from 192.168.1.1", ""}

Patterns == 1..5

\* what pattern k requires before the capture group
PrefixMatches(k, pre) ==
    CASE k = 1 -> pre = DnsdistPre
      [] k = 2 -> pre = ClientPre
      [] k = 3 -> pre = QueryPre
      [] k = 4 -> pre \in {DnsdistPre, QueryPre, DatePre}
      [] k = 5 -> pre = JournalPre

\* what pattern k requires after the capture group: " IN", "\)",
\* whitespace, a record type and whitespace, or nothing
SuffixMatches(k, post) ==
    CASE k = 1 -> post = " IN A"
      [] k = 2 -> post \in {")", "): "}
      [] k = 4 -> post = " A query from 192.168.1.1"
      [] OTHER -> TRUE

\* The capture of pattern k at field f. A pattern that requires something
\* after the group matches only when the group takes the whole text: what
\* follows starts with whitespace or a parenthesis, which no text holds.
FieldCapture(k, f) ==
    IF ~PrefixMatches(k, f.pre) THEN <<>>
    ELSE IF k \in {3, 5} THEN GreedyCapture(f.text)
    ELSE IF SuffixMatches(k, f.post) /\ GreedyCapture(f.text) = f.text
    THEN f.text
    ELSE <<>>

\* pattern.captures(line).get(1): the leftmost match of pattern k
Captures(k, line) ==
    LET idx == {i \in 1..Len(line) : FieldCapture(k, line[i]) # <<>>}
    IN  IF idx = {} THEN <<>>
        ELSE FieldCapture(k, line[CHOOSE i \in idx : \A j \in idx : i <= j])

\* the loop over domain_patterns from pattern k on
RECURSIVE FirstValid(_, _)
FirstValid(line, k) ==
    IF k \notin Patterns THEN <<>>
    ELSE LET domain == Captures(k, line)
         IN  IF domain # <<>> /\ contains(domain, ".") /\ is_valid_domain(domain)
             THEN to_lowercase(domain)
             ELSE FirstValid(line, k + 1)

\* parse_log_line: Some(domain), or None (<<>>)
parse_log_line(line) ==
    IF Len(line) = 0 THEN <<>> ELSE FirstValid(line, 1)

\* The texts of the model
RECURSIVE Repeat(_, _)
Repeat(s, n) == IF n = 0 THEN <<>> ELSE s \o Repeat(s, n - 1)
Example == <<"e", "x", "a", "m", "p", "l", "e">>
DotCom == <<".", "c", "o", "m">>
Myhost == <<"m", "y", "h", "o", "s", "t">>
LongLabel == Repeat(<<"a">>, MaxLabelLength)
Texts ==
    {Example \o DotCom,
     <<"E", "X", "A", "M", "P", "L", "E", ".", "C", "O", "M">>,
     <<"E">> \o Tail(Example) \o <<".", "C", "o", "m">>,
     <<"a", "-", "b">> \o DotCom,
     Localhost,
     Myhost \o DotLocal,
     Myhost \o <<".", "L", "O", "C", "A", "L">>,
     Myhost \o DotLocalhost,
     Myhost \o DotInternal,
     Myhost \o DotLocal \o DotCom,
     <<".">> \o Example \o DotCom,
     Example \o DotCom \o <<".">>,
     <<"-">> \o Example \o DotCom,
     Example \o DotCom \o <<"-">>,
     Example \o <<"_">> \o DotCom,
     Myhost \o DotLocal \o <<"_">>,
     Repeat(LongLabel \o <<".">>, 3) \o Repeat(<<"a">>, 61),
     Repeat(LongLabel \o <<".">>, 3) \o Repeat(<<"a">>, 62),
     Repeat(<<"a">>, MaxLabelLength) \o DotCom,
     Repeat(<<"a">>, MaxLabelLength + 1) \o DotCom,
     <<"w", "w", "w", ".">> \o Repeat(<<"a">>, MaxLabelLength + 1) \o DotCom,
     <<>>}

\* the texts that appear in lines of two fields
TextsOfTwo ==
    {Example \o DotCom,
     <<"E", "X", "A", "M", "P", "L", "E", ".", "C", "O", "M">>,
     Localhost,
     Myhost \o DotInternal,
     Example \o DotCom \o <<".">>,
     <<"-">> \o Example \o DotCom}

LineField(pre, text, post) == [pre |-> pre, text |-> text, post |-> post]

\* The lines of the model: the blank line, every line of one field, and
\* lines of two fields as BIND writes them (client .. (domain): query: domain)
Lines ==
    {<<>>}
    \cup {<<LineField(pre, text, post)>> : pre \in Pres, text \in Texts, post \in Posts}
    \cup {<<LineField(ClientPre, t1, "): "), LineField(QueryPre, t2, " IN A")>> :
            t1 \in TextsOfTwo, t2 \in TextsOfTwo}

NoLine == [pc |-> "idle", line |-> <<>>, domain |-> <<>>]

\* stream.next(): the next line of the log
ReadLine(line) ==
    /\ lp_line.pc \in {"idle", "parsed"}
    /\ lp_line' = [pc |-> "read", line |-> line, domain |-> <<>>]
    /\ UNCHANGED <<store, pending, qpv, lpv, now, cap, args_ttl_days, wire, resp, cl>>

\* parser.parse_log_line(&line)
ParseLine ==
    /\ lp_line.pc = "read"
    /\ lp_line' = [lp_line EXCEPT !.pc = "parsed",
                                  !.domain = parse_log_line(lp_line.line)]
    /\ UNCHANGED <<store, pending, qpv, lpv, now, cap, args_ttl_days, wire, resp, cl>>

(***************************************************************************)
(* JSON on the wire (serde_json): the queue message and the classifier's   *)
(* output documents                                                        *)
(***************************************************************************)
\* A text is a sequence of characters or words.  These three are the
\* characters a JSON string cannot hold unescaped.
Quote == "\""
Backslash == "\\"
Newline == "\n"

\* serde_json's string writer: a backslash before a quote or a backslash,
\* and the two characters \ n for a line feed
RECURSIVE Escape(_)
Escape(s) ==
    IF s = <<>> THEN <<>>
    ELSE LET c == Head(s) IN
         (IF c \in {Quote, Backslash} THEN <<Backslash, c>>
          ELSE IF c = Newline THEN <<Backslash, "n">>
          ELSE <<c>>) \o Escape(Tail(s))

\* serde_json's string reader accepts a body in which every backslash starts
\* an escape and no quote or line feed stands unescaped
RECURSIVE WellEscaped(_)
WellEscaped(s) ==
    IF s = <<>> THEN TRUE
    ELSE IF Head(s) = Backslash
         THEN /\ Len(s) >= 2
              /\ s[2] \in {Quote, Backslash, "n"}
              /\ WellEscaped(Tail(Tail(s)))
         ELSE /\ Head(s) \notin {Quote, Newline}
              /\ WellEscaped(Tail(s))

RECURSIVE Unescape(_)
Unescape(s) ==
    IF s = <<>> THEN <<>>
    ELSE IF Head(s) = Backslash
         THEN <<IF s[2] = "n" THEN Newline ELSE s[2]>> \o Unescape(Tail(Tail(s)))
         ELSE <<Head(s)>> \o Unescape(Tail(s))

DigitChars == <<"0", "1", "2", "3", "4", "5", "6", "7", "8", "9">>

IsDigits(s) == s # <<>> /\ \A i \in 1..Len(s) : \E d \in 1..10 : DigitChars[d] = s[i]

DigitValue(c) == (CHOOSE d \in 1..10 : DigitChars[d] = c) - 1

\* itoa: the decimal digits of a number that is not negative
RECURSIVE FormatNat(_)
FormatNat(n) ==
    IF n < 10 THEN <<DigitChars[n + 1]>>
    ELSE FormatNat(n \div 10) \o <<DigitChars[(n % 10) + 1]>>

RECURSIVE ParseNat(_)
ParseNat(s) ==
    IF s = <<>> THEN 0
    ELSE ParseNat(SubSeq(s, 1, Len(s) - 1)) * 10 + DigitValue(s[Len(s)])

\* an i64 as serde_json writes and reads it
FormatI64(n) == IF n < 0 THEN <<"-">> \o FormatNat(0 - n) ELSE FormatNat(n)

IsI64(s) == IF s # <<>> /\ Head(s) = "-" THEN IsDigits(Tail(s)) ELSE IsDigits(s)

ParseI64(s) == IF Head(s) = "-" THEN 0 - ParseNat(Tail(s)) ELSE ParseNat(s)

\* a u16 as serde_json reads it: digits only, at most 65535
U16Max == 65535

IsU16(s) == IsDigits(s) /\ Len(s) <= 5 /\ ParseNat(s) <= U16Max

\* Faulty variant of FormatF64: the number is written without its fraction.
FormatF64WithoutFraction(c) == FormatNat(c \div 10)

\* An f64 between 0 and 1 counted in tenths, as ryu writes it: the integer
\* part, a point and the fraction
FormatF64(c) == FormatNat(c \div 10) \o <<".">> \o FormatNat(c % 10)

PointAt(s) == {i \in 1..Len(s) : s[i] = "."}

\* serde_json reads an f64 from a number with or without a fraction
IsF64(s) ==
    \/ IsDigits(s)
    \/ /\ Cardinality(PointAt(s)) = 1
       /\ LET p == CHOOSE i \in PointAt(s) : TRUE IN
          /\ IsDigits(SubSeq(s, 1, p - 1))
          /\ Len(s) = p + 1
          /\ IsDigits(SubSeq(s, p + 1, Len(s)))

ParseF64(s) ==
    IF PointAt(s) = {} THEN ParseNat(s) * 10
    ELSE LET p == CHOOSE i \in PointAt(s) : TRUE IN
         ParseNat(SubSeq(s, 1, p - 1)) * 10 + ParseNat(SubSeq(s, p + 1, Len(s)))

\* JSON values
JString(s) == [t |-> "string", v |-> Escape(s)]
JNumber(digits) == [t |-> "number", v |-> digits]
JBool(b) == [t |-> "bool", v |-> b]
JNull == [t |-> "null", v |-> <<>>]
JObject(fields) == [t |-> "object", v |-> fields]
Missing == [t |-> "missing", v |-> <<>>]

\* the value of a key of an object, which is a sequence of <<key, value>>
Get(obj, key) ==
    IF \E i \in 1..Len(obj.v) : obj.v[i][1] = key
    THEN obj.v[CHOOSE i \in 1..Len(obj.v) : obj.v[i][1] = key][2]
    ELSE Missing

IsString(j) == j.t = "string" /\ WellEscaped(j.v)

Decoded(v) == [ok |-> TRUE, value |-> v]
DecodeError == [ok |-> FALSE, value |-> <<>>]

\* struct DomainMessage { domain: String, timestamp: i64 }
DomainMessage(d, ts) == [domain |-> d, timestamp |-> ts]

\* serde_json::to_vec(&DomainMessage)
encode_DomainMessage(m) ==
    JObject(<< <<"domain", JString(m.domain)>>,
               <<"timestamp", JNumber(FormatI64(m.timestamp))>> >>)

\* serde_json::from_slice::<DomainMessage>
decode_DomainMessage(j) ==
    IF /\ j.t = "object"
       /\ IsString(Get(j, "domain"))
       /\ Get(j, "timestamp").t = "number"
       /\ IsI64(Get(j, "timestamp").v)
    THEN Decoded(DomainMessage(Unescape(Get(j, "domain").v),
                               ParseI64(Get(j, "timestamp").v)))
    ELSE DecodeError

\* struct ClassificationOutput with its Classification and
\* ClassificationMetadata
ClassificationOutputStruct(d, m, c, status, model, hash) ==
    [domain |-> d,
     result |-> <<"classified">>,
     classification |-> [is_matching_site |-> m, confidence |-> c],
     metadata |-> [http_status |-> status, model |-> model, prompt_hash |-> hash]]

\* ClassificationOutput::to_json
encode_ClassificationOutput(o) ==
    JObject(<< <<"domain", JString(o.domain)>>,
               <<"result", JString(o.result)>>,
               <<"classification",
                 JObject(<< <<"is_matching_site",
                              JBool(o.classification.is_matching_site)>>,
                            <<"confidence",
                              JNumber(FormatF64(o.classification.confidence))>> >>)>>,
               <<"metadata",
                 JObject(<< <<"http_status",
                              JNumber(FormatNat(o.metadata.http_status))>>,
                            <<"model", JString(o.metadata.model)>>,
                            <<"prompt_hash", JString(o.metadata.prompt_hash)>> >>)>> >>)

\* serde_json::from_str::<ClassificationOutput>
decode_ClassificationOutput(j) ==
    IF /\ j.t = "object"
       /\ IsString(Get(j, "domain"))
       /\ IsString(Get(j, "result"))
       /\ Get(j, "classification").t = "object"
       /\ Get(Get(j, "classification"), "is_matching_site").t = "bool"
       /\ Get(Get(j, "classification"), "confidence").t = "number"
       /\ IsF64(Get(Get(j, "classification"), "confidence").v)
       /\ Get(j, "metadata").t = "object"
       /\ Get(Get(j, "metadata"), "http_status").t = "number"
       /\ IsU16(Get(Get(j, "metadata"), "http_status").v)
       /\ IsString(Get(Get(j, "metadata"), "model"))
       /\ IsString(Get(Get(j, "metadata"), "prompt_hash"))
    THEN Decoded(
           [domain |-> Unescape(Get(j, "domain").v),
            result |-> Unescape(Get(j, "result").v),
            classification |->
               [is_matching_site |-> Get(Get(j, "classification"), "is_matching_site").v,
                confidence |-> ParseF64(Get(Get(j, "classification"), "confidence").v)],
            metadata |->
               [http_status |-> ParseNat(Get(Get(j, "metadata"), "http_status").v),
                model |-> Unescape(Get(Get(j, "metadata"), "model").v),
                prompt_hash |-> Unescape(Get(Get(j, "metadata"), "prompt_hash").v)]])
    ELSE DecodeError

\* Option<PartialMetadata>
MetadataNone == [some |-> FALSE, model |-> <<>>, prompt_hash |-> <<>>]
MetadataSome(model, hash) == [some |-> TRUE, model |-> model, prompt_hash |-> hash]

\* struct ErrorOutput with its ErrorDetails
ErrorOutputStruct(d, type, message, metadata) ==
    [domain |-> d,
     result |-> <<"error">>,
     error |-> [error_type |-> type, message |-> message],
     metadata |-> metadata]

\* #[serde(rename_all = "PascalCase")] on ClassifierErrorType: a variant is
\* written under its own name
variant_name(type) == <<type>>

\* ErrorOutput::to_json: a None is written as null
encode_ErrorOutput(o) ==
    JObject(<< <<"domain", JString(o.domain)>>,
               <<"result", JString(o.result)>>,
               <<"error",
                 JObject(<< <<"error_type", JString(variant_name(o.error.error_type))>>,
                            <<"message", JString(o.error.message)>> >>)>>,
               <<"metadata",
                 IF o.metadata.some
                 THEN JObject(<< <<"model", JString(o.metadata.model)>>,
                                 <<"prompt_hash", JString(o.metadata.prompt_hash)>> >>)
                 ELSE JNull>> >>)

\* serde_json::from_str::<ErrorOutput>: an Option reads null or a missing key
\* as None, an enum reads the name of one of its variants
decode_ErrorOutput(j) ==
    IF /\ j.t = "object"
       /\ IsString(Get(j, "domain"))
       /\ IsString(Get(j, "result"))
       /\ Get(j, "error").t = "object"
       /\ IsString(Get(Get(j, "error"), "error_type"))
       /\ \E type \in ErrorTypes :
              Unescape(Get(Get(j, "error"), "error_type").v) = variant_name(type)
       /\ IsString(Get(Get(j, "error"), "message"))
       /\ \/ Get(j, "metadata").t \in {"null", "missing"}
          \/ /\ Get(j, "metadata").t = "object"
             /\ IsString(Get(Get(j, "metadata"), "model"))
             /\ IsString(Get(Get(j, "metadata"), "prompt_hash"))
    THEN Decoded(
           [domain |-> Unescape(Get(j, "domain").v),
            result |-> Unescape(Get(j, "result").v),
            error |->
               [error_type |->
                    CHOOSE type \in ErrorTypes :
                        Unescape(Get(Get(j, "error"), "error_type").v) = variant_name(type),
                message |-> Unescape(Get(Get(j, "error"), "message").v)],
            metadata |->
               IF Get(j, "metadata").t = "object"
               THEN MetadataSome(Unescape(Get(Get(j, "metadata"), "model").v),
                         Unescape(Get(Get(j, "metadata"), "prompt_hash").v))
               ELSE MetadataNone])
    ELSE DecodeError

encode(type, value) ==
    CASE type = "DomainMessage" -> encode_DomainMessage(value)
      [] type = "ClassificationOutput" -> encode_ClassificationOutput(value)
      [] type = "ErrorOutput" -> encode_ErrorOutput(value)

decode(type, json) ==
    CASE type = "DomainMessage" -> decode_DomainMessage(json)
      [] type = "ClassificationOutput" -> decode_ClassificationOutput(json)
      [] type = "ErrorOutput" -> decode_ErrorOutput(json)

\* The values of the model.  Timestamps are Utc::now().timestamp(), seconds
\* since 1970; confidences are tenths.
WireDomains == {Example \o DotCom, <<"a", ".", "b">>, <<"x", "-", "1", ".", "i", "o">>}
Timestamps == {0 - 1, 0, 9, 1700000000}
Confidences == {0, 8, 10}
HttpStatuses == {0, 200, 404}
ModelName == <<"llama3", ":", "8b">>
PromptHash == <<"sha256", ":", "abc">>
Messages ==
    {<<"http_fetch_failed", ":", " ", "404">>,
     <<"expected", " ", Quote, "true", Quote, " ", "at", Backslash, "n", Newline, "line 1">>}

WireValues ==
    {<<"DomainMessage", DomainMessage(d, ts)>> : d \in WireDomains, ts \in Timestamps}
    \cup {<<"ClassificationOutput",
            ClassificationOutputStruct(d, m, c, status, ModelName, PromptHash)>> :
            d \in {Example \o DotCom}, m \in BOOLEAN, c \in Confidences,
            status \in HttpStatuses}
    \cup {<<"ErrorOutput", ErrorOutputStruct(Example \o DotCom, type, message, metadata)>> :
            type \in ErrorTypes, message \in Messages,
            metadata \in {MetadataNone, MetadataSome(ModelName, PromptHash)}}

NoWire == [pc |-> "idle", type |-> "-", value |-> <<>>, json |-> JNull,
           decoded |-> DecodeError]

\* the sender serializes a value: publish_domain, print_output
Serialize(type, value) ==
    /\ wire.pc \in {"idle", "decoded"}
    /\ wire' = [pc |-> "encoded", type |-> type, value |-> value,
                json |-> encode(type, value), decoded |-> DecodeError]
    /\ UNCHANGED <<store, pending, qpv, lpv, now, cap, args_ttl_days, lp_line, resp, cl>>

\* the receiver reads the bytes as the same type
Deserialize ==
    /\ wire.pc = "encoded"
    /\ wire' = [wire EXCEPT !.pc = "decoded", !.decoded = decode(wire.type, wire.json)]
    /\ UNCHANGED <<store, pending, qpv, lpv, now, cap, args_ttl_days, lp_line, resp, cl>>

(***************************************************************************)
(* Specifications                                                          *)
(***************************************************************************)
\* the state after construction, the Queue-Processors started with --ttl-days
\* ttl, the dnsdist API answering with one of api
InitApi(P, D, c, ties, ttl, api) ==
    /\ events = <<>>
    /\ prompts = {}
    /\ domains = {}
    /\ classifications = <<>>
    /\ now = 0
    /\ pending = [n \in {consumer_name(q) : q \in P} |->
                      [d \in D \cup {Poison} |-> 0]]
    /\ pc = [q \in P |-> "idle"]
    /\ cur = [q \in P |-> NoDomain]
    /\ res = [q \in P |-> NoResult]
    /\ lp_pc = "idle"
    /\ lp_dom = NoDomain
    /\ lp_sq = "-"
    /\ lp_api = NoReply
    /\ resp = NoResponse
    /\ cl = NotStarted
    /\ seen = {}
    /\ restarts = 0
    /\ cap = [events |-> c, ties |-> ties, api |-> api]
    /\ args_ttl_days = ttl
    /\ lp_line = NoLine
    /\ wire = NoWire

\* the dnsdist API is configured and answers
InitWith(P, D, c, ties, ttl) == InitApi(P, D, c, ties, ttl, BlockedOrNot)

\* the Queue-Processors are started with the same TTL
InitOver(P, D, c, ties) == InitWith(P, D, c, ties, TtlDays)

QueueProcessor(q, D, O) ==
    \/ \E d \in D : Receive(q, d)
    \/ InsertClassifying(q)
    \/ \E out \in O : RunClassifier(q, out)
    \/ InsertClassified(q)
    \/ UpdateProjections(q)
    \/ InsertError(q)
    \/ CountErrors(q)
    \/ Ack(q)
    \/ Nak(q)
    \/ Crash(q)

LogProcessor(D) ==
    \/ \E d \in D : LPLine(d)
    \/ LPCheckValid
    \/ LPInsert
    \/ LPPublish
    \/ LPRestart

\* One classification type, one domain, the common classifier outcomes
Procs == {"gaming"}
Domains == {"a.com"}
Outcomes == {Success(TRUE, 8), Success(TRUE, 7), Success(FALSE, 9),
             ErrorDoc("DomainFetchError", <<"dns_resolution_failed">>),
             ErrorDoc("DomainFetchError", <<"invalid_domain">>),
             ErrorDoc("DomainFetchError", <<"http_fetch_failed", ":", "404">>),
             ErrorDoc("DomainFetchError", <<"http_fetch_failed", ":", "403">>),
             ErrorDoc("DomainFetchError", <<"http_fetch_failed", ":", "500">>),
             ErrorDoc("OllamaApiTimeoutError", <<"timeout">>),
             SpawnFailed}

Init == InitOver(Procs, Domains, MaxEvents, MaxTies)
Next ==
    \/ \E q \in Procs : QueueProcessor(q, Domains, Outcomes)
    \/ LogProcessor(Domains)
    \/ Tick
Spec == Init /\ [][Next]_vars

\* The same pipeline over the values of --ttl-days that the argument parser
\* accepts: ttl_days is an i64 and is not range-checked, so a negative, a
\* zero and a positive number of days are all taken.
TtlArgs == {0 - 1, 0, TtlDays}
InitTtl == \E ttl \in TtlArgs : InitWith(Procs, Domains, MaxEvents, 0, ttl)
SpecTtl == InitTtl /\ [][Next]_vars


\* The Blocklist-Server over the tables that committed classifications of
\* two types leave behind: every table content of up to MaxRows
\* classifications, each with the two events its handling appended.
BlocklistRows ==
    {[domain |-> d, classification_type |-> type, confidence |-> MinConfidence,
      valid_on |-> t, valid_until |-> t + TtlDays, prompt_id |-> 1] :
        d \in AllDomains, type \in {"gaming", "video"}, t \in 0..MaxTime}

EventsOfRows(rows) ==
    [k \in 1..(2 * Len(rows)) |->
        LET r == rows[(k + 1) \div 2]
        IN  [domain |-> r.domain,
             action |-> IF k % 2 = 1 THEN "classifying" ELSE "classified",
             created_at |-> r.valid_on, tie |-> FALSE, by |-> r.classification_type,
             is_matching_site |-> (k % 2 = 0),
             confidence |-> IF k % 2 = 0 THEN r.confidence ELSE 0,
             error |-> <<>>]]

InitBlocklist ==
    \E n \in 0..MaxRows : \E rows \in [1..n -> BlocklistRows] :
        /\ \A i \in 1..(n - 1) : rows[i].valid_on <= rows[i + 1].valid_on
        /\ classifications = rows
        /\ domains =
              {[domain |-> d,
                last_updated |->
                    rows[CHOOSE i \in 1..n :
                            /\ rows[i].domain = d
                            /\ \A j \in 1..n : rows[j].domain = d => j <= i].valid_on] :
                  d \in {rows[i].domain : i \in 1..n}}
        /\ prompts =
              IF n = 0 THEN {}
              ELSE {[id |-> 1, content |-> prompt_template("gaming"),
                     hash |-> compute_prompt_hash(prompt_template("gaming"))]}
        /\ events = EventsOfRows(rows)
        /\ now \in (IF n = 0 THEN 0 ELSE rows[n].valid_on)..MaxTime
        /\ cap = [events |-> 2 * n, ties |-> 0, api |-> BlockedOrNot]
        /\ args_ttl_days = TtlDays
        /\ lp_line = NoLine
        /\ wire = NoWire
        /\ pending = [q \in {"gaming", "video"} |-> [d \in AllDomains |-> 0]]
        /\ pc = [q \in {"gaming", "video"} |-> "idle"]
        /\ cur = [q \in {"gaming", "video"} |-> NoDomain]
        /\ res = [q \in {"gaming", "video"} |-> NoResult]
        /\ lp_pc = "idle"
        /\ lp_dom = NoDomain
        /\ lp_sq = "-"
        /\ lp_api = NoReply
        /\ resp = NoResponse
        /\ cl = NotStarted
        /\ seen = {}
        /\ restarts = 0

\* the "at" parameters of the requests
AtParams == {NoAt} \cup {Rfc3339(t) : t \in 0..(MaxTime + TtlDays)} \cup MalformedAt

NextBlocklist ==
    \E type \in AllProcs, at \in AtParams :
        GetBlocklist(type, at)

SpecBlocklist == InitBlocklist /\ [][NextBlocklist]_vars

\* One Queue-Processor on a domain whose classification fails on every
\* delivery; the Log-Processor reads its log once and no process dies.
FailingOutcomes == {ErrorDoc("OllamaApiTimeoutError", <<"timeout">>),
                    ErrorDoc("DomainFetchError", <<"http_fetch_failed", ":", "500">>),
                    ErrorDoc("DomainFetchError", <<"dns_resolution_failed">>)}

FailingQueueProcessor(q, D, O) ==
    \/ \E d \in D : Receive(q, d)
    \/ InsertClassifying(q)
    \/ \E out \in O : RunClassifier(q, out)
    \/ InsertError(q)
    \/ CountErrors(q)
    \/ Ack(q)
    \/ Nak(q)

LogReader(D) ==
    \/ \E d \in D : LPLine(d)
    \/ LPInsert
    \/ LPPublish

InitCircuit == InitOver(Procs, Domains, MaxRetryEvents, MaxTies)
NextCircuit ==
    \/ \E q \in Procs : FailingQueueProcessor(q, Domains, FailingOutcomes)
    \/ LogReader(Domains)
SpecCircuit == InitCircuit /\ [][NextCircuit]_vars

\* Three Queue-Processors, one per classification type, on one domain whose
\* classification times out on every delivery. The three writers' timestamps
\* do not collide.
TimeoutOutcomes == {ErrorDoc("OllamaApiTimeoutError", <<"timeout">>)}

TimingOutQueueProcessor(q, D, O) ==
    \/ \E d \in D : Receive(q, d)
    \/ InsertClassifying(q)
    \/ \E out \in O : RunClassifier(q, out)
    \/ InsertError(q)
    \/ CountErrors(q)
    \/ Nak(q)
    \/ Crash(q)

InitThreeTypes == InitOver(AllProcs, Domains, MaxCircuitEvents, 0)
NextThreeTypes ==
    \/ \E q \in AllProcs : TimingOutQueueProcessor(q, Domains, TimeoutOutcomes)
    \/ LogReader(Domains)
SpecThreeTypes == InitThreeTypes /\ [][NextThreeTypes]_vars

\* One Queue-Processor on a domain whose classification times out on some
\* deliveries and returns a passing verdict on others; no process dies.
RetryOutcomes == {ErrorDoc("OllamaApiTimeoutError", <<"timeout">>),
                  Success(TRUE, 8)}

SteadyQueueProcessor(q, D, O) ==
    \/ \E d \in D : Receive(q, d)
    \/ InsertClassifying(q)
    \/ \E out \in O : RunClassifier(q, out)
    \/ InsertClassified(q)
    \/ UpdateProjections(q)
    \/ InsertError(q)
    \/ CountErrors(q)
    \/ Ack(q)
    \/ Nak(q)

InitRetry == InitOver(Procs, Domains, MaxRetryEvents, MaxTies)
NextRetry ==
    \/ \E q \in Procs : SteadyQueueProcessor(q, Domains, RetryOutcomes)
    \/ LogReader(Domains)
SpecRetry == InitRetry /\ [][NextRetry]_vars

\* One Queue-Processor whose consumer also receives malformed messages.
InitPoison == InitOver(Procs, Domains, MaxEvents, MaxTies)
NextPoison ==
    \/ \E q \in Procs : QueueProcessor(q, Domains, Outcomes)
    \/ \E q \in Procs : ReceivePoison(q)
    \/ LogReader(Domains)
    \/ PublishRaw
SpecPoison == InitPoison /\ [][NextPoison]_vars

\* Two Queue-Processors of different classification types that use the same
\* prompt, on one domain that both find matching; their transactions overlap.
MatchingOutcomes == {Success(TRUE, 8)}
PromptProcs == {"gaming", "video"}

MatchingQueueProcessor(q, D, O) ==
    \/ \E d \in D : Receive(q, d)
    \/ InsertClassifying(q)
    \/ \E out \in O : RunClassifier(q, out)
    \/ InsertClassified(q)
    \/ TxEnsurePrompt(q)
    \/ TxCommit(q)
    \/ Ack(q)
    \/ Nak(q)
    \/ Crash(q)

InitPrompts == InitOver(PromptProcs, Domains, MaxCircuitEvents, 0)
NextPrompts ==
    \/ \E q \in PromptProcs : MatchingQueueProcessor(q, Domains, MatchingOutcomes)
    \/ LogReader(Domains)
SpecPrompts == InitPrompts /\ [][NextPrompts]_vars

\* Two Queue-Processor processes of one classification type on the one
\* durable consumer of the type, and two domains waiting in the stream.
ConsumerGroup == {"gaming", SecondGaming}
TwoDomains == {"a.com", "b.com"}

InitShared == InitOver(ConsumerGroup, TwoDomains, MaxEvents, 0)
NextShared ==
    \/ \E q \in ConsumerGroup : SteadyQueueProcessor(q, TwoDomains, RetryOutcomes)
    \/ \E q \in ConsumerGroup : Crash(q)
    \/ LogReader(TwoDomains)
SpecShared == InitShared /\ [][NextShared]_vars

\* Faulty variant of Crash: the message in hand is lost with the process.
CrashLosingMessage(q) ==
    /\ pc[q] \notin {"idle", "nak"}
    /\ pending' = [pending EXCEPT ![consumer_name(q)][cur[q]] = @ - 1]
    /\ Done(q)
    /\ UNCHANGED <<store, lpv, env>>

\* The process dies in the middle of a handling; see Crash.
ProcessDies(q) == Crash(q)

\* A store write of the handling that goes through.
Written(A) == A /\ events' # events

\* Fair delivery: the consumer keeps delivering an unacknowledged message, the
\* process is not killed at the same await for ever, the classifier subprocess
\* ends (its HTTP calls have timeouts), the store does not refuse the same
\* write for ever, and a failed handling hands its message back.
FairDelivery(q, D, O) ==
    /\ \A d \in D : SF_vars(Receive(q, d))
    /\ SF_vars(Written(InsertClassifying(q)))
    /\ SF_vars(\E out \in O : RunClassifier(q, out))
    /\ SF_vars(Written(InsertClassified(q)))
    /\ SF_vars(Written(InsertError(q)))
    /\ WF_vars(Nak(q))

\* One Queue-Processor that may die at any await, under fair delivery.
InitLive == InitOver(Procs, Domains, MaxCircuitEvents, 0)
NextLive ==
    \/ \E q \in Procs : SteadyQueueProcessor(q, Domains, RetryOutcomes)
    \/ \E q \in Procs : ProcessDies(q)
    \/ LogReader(Domains)
SpecLive ==
    /\ InitLive
    /\ [][NextLive]_vars
    /\ \A q \in Procs : FairDelivery(q, Domains, RetryOutcomes)

\* The three components side by side: the Log-Processor, one Queue-Processor
\* and the Blocklist-Server answering GET /blocklist without an "at".
InitPipeline == InitOver(Procs, Domains, MaxEvents, MaxTies)
NextPipeline ==
    \/ \E q \in Procs : QueueProcessor(q, Domains, Outcomes)
    \/ LogProcessor(Domains)
    \/ \E type \in Procs : GetBlocklist(type, NoAt)
SpecPipeline == InitPipeline /\ [][NextPipeline]_vars

\* The pipeline with an event log long enough for a domain to be classified,
\* to expire and to be classified again.
InitExpiry == InitOver(Procs, Domains, MaxCircuitEvents, 0)
NextExpiry ==
    \/ \E q \in Procs : QueueProcessor(q, Domains, MatchingOutcomes \cup TimeoutOutcomes)
    \/ LogProcessor(Domains)
    \/ Tick
SpecExpiry == InitExpiry /\ [][NextExpiry]_vars

\* One run of the classifier process in either output mode.
OutputModes == {"json", "human"}

InitClassifier == InitOver(Procs, Domains, 0, 0)
NextClassifier ==
    \/ \E mode \in OutputModes : ClStart(mode)
    \/ \E ok \in BOOLEAN : ClReadPrompt(ok)
    \/ \E ok \in BOOLEAN : ClBuildClient(ok)
    \/ \E outcome \in FetchOutcomes : ClFetchAttempt(outcome)
    \/ ClFetchExhausted
    \/ ClMetadata
    \/ \E outcome \in LlmOutcomes : ClClassify(outcome)
    \/ \E ok \in BOOLEAN : ClOutput(ok)
SpecClassifier == InitClassifier /\ [][NextClassifier]_vars

\* run_classifier over what a subprocess may leave behind: the stdout of the
\* process (empty, or one text) and its exit status. The classifier behaves
\* the same way on every run of a behaviour.
ExitStatuses == {0, 1, 101}
StdoutTexts ==
    {Success(TRUE, 8), Success(FALSE, 9),
     ErrorDoc("DomainFetchError", <<"dns_resolution_failed">>),
     ErrorDoc("OllamaApiTimeoutError", <<"timeout">>),
     ErrorDoc("NoSuchErrorType", <<"timeout">>),
     OtherResult("error"), OtherResult("pending"),
     Garbage(<<"{", "truncated">>)}
ExitedRuns ==
    {[NotStarted EXCEPT !.pc = "exited", !.output = "json", !.stdout = text,
                        !.exit = status] :
        text \in {<<>>} \cup {<<t>> : t \in StdoutTexts}, status \in ExitStatuses}

\* stdout.read_to_string(&mut buf): what run_classifier reads from the pipe
Captured(c) == IF c.stdout = <<>> THEN EmptyStdout ELSE c.stdout[1]

InitSubprocess ==
    \E run \in ExitedRuns :
        /\ events = <<>>
        /\ prompts = {}
        /\ domains = {}
        /\ classifications = <<>>
        /\ now = 0
        /\ pending = [n \in {consumer_name(q) : q \in Procs} |->
                          [d \in Domains \cup {Poison} |-> 0]]
        /\ pc = [q \in Procs |-> "idle"]
        /\ cur = [q \in Procs |-> NoDomain]
        /\ res = [q \in Procs |-> NoResult]
        /\ lp_pc = "idle"
        /\ lp_dom = NoDomain
        /\ lp_sq = "-"
        /\ lp_api = NoReply
        /\ resp = NoResponse
        /\ cl = run
        /\ seen = {}
        /\ restarts = 0
        /\ cap = [events |-> MaxEvents, ties |-> 0, api |-> BlockedOrNot]
        /\ args_ttl_days = TtlDays
        /\ lp_line = NoLine
        /\ wire = NoWire
NextSubprocess ==
    \/ \E q \in Procs :
          \/ \E d \in Domains : Receive(q, d)
          \/ InsertClassifying(q)
          \/ RunClassifier(q, Captured(cl))
          \/ InsertClassified(q)
          \/ UpdateProjections(q)
          \/ InsertError(q)
          \/ CountErrors(q)
          \/ Ack(q)
          \/ Nak(q)
    \/ LogReader(Domains)
SpecSubprocess == InitSubprocess /\ [][NextSubprocess]_vars

\* The parser over the lines of the model
InitParser == InitOver(Procs, Domains, 0, 0)
NextParser ==
    \/ \E line \in Lines : ReadLine(line)
    \/ ParseLine
SpecParser == InitParser /\ [][NextParser]_vars

\* Values sent over the wire and read back
InitWire == InitOver(Procs, Domains, 0, 0)
NextWire ==
    \/ \E tv \in WireValues : Serialize(tv[1], tv[2])
    \/ Deserialize
SpecWire == InitWire /\ [][NextWire]_vars

\* The pipeline of Spec with a dnsdist API that may be absent, unreachable,
\* answering with an error status or with a body that cannot be read
InitFailOpen == InitApi(Procs, Domains, MaxEvents, 0, TtlDays, DnsdistReplies)
SpecFailOpen == InitFailOpen /\ [][Next]_vars

(***************************************************************************)
(* Properties                                                              *)
(***************************************************************************)
\* every row the store may return as the latest event of d has action a
LatestIs(d, a) == LatestRows(d) # {} /\ \A e \in LatestRows(d) : e.action = a

\* this step appends exactly one event, and its action is a
Appended(a) ==
    /\ Len(events') = Len(events) + 1
    /\ SubSeq(events', 1, Len(events)) = events
    /\ events'[Len(events')].action = a

NewEvent == events'[Len(events')]

\* this step appends exactly one event, written by Queue-Processor q
AppendedBy(q, a) == Appended(a) /\ NewEvent.by = q /\ NewEvent.domain = cur[q]

\* the event Queue-Processor q appended last
LastEventBy(q) ==
    LET idx == {i \in 1..Len(events) : events[i].by = q}
    IN  events[CHOOSE i \in idx : \A j \in idx : j <= i]

WroteEvent(q) == \E i \in 1..Len(events) : events[i].by = q

\* the verdict passes the threshold, as the specification words it
PassesThreshold(r) == r.ok /\ r.match = TRUE /\ r.conf >= MinConfidence

\* the failure is permanent, as the specification words it
PermanentFailure(r) ==
    /\ ~r.ok
    /\ r.kind = "ClassifierError"
    /\ \/ Contains(r.msg, <<"dns_resolution_failed">>)
       \/ Contains(r.msg, <<"invalid_domain">>)
       \/ Contains(r.msg, <<"http_fetch_failed", ":", "404">>)
       \/ Contains(r.msg, <<"http_fetch_failed", ":", "403">>)

\* C1 (as claimed): the Queue-Processor appends no `classifying` event for a
\* domain whose latest event is `classified` while a still-valid
\* Classification row of the domain exists: such a message is skipped.
C1_SkipsKnownDomain ==
    [][Appended("classifying") =>
          ~(LatestIs(NewEvent.domain, "classified")
            /\ ValidCount(NewEvent.domain) > 0)]_vars

C3_ProjectionForEveryMatch ==
    \A i \in 1..Len(events) :
        LET e == events[i]
            on_its_way ==
                /\ pc[e.by] = "project"
                /\ cur[e.by] = e.domain
                /\ \A k \in (i + 1)..Len(events) : events[k].by # e.by
        IN  (e.action = "classified" /\ e.is_matching_site
             /\ e.confidence >= MinConfidence /\ ~on_its_way)
            => \E j \in 1..Len(classifications) :
                  LET c == classifications[j]
                  IN  /\ c.domain = e.domain
                      /\ c.classification_type = e.by
                      /\ c.valid_until - (e.created_at + TtlDays) \in -1..1

\* C4: a verdict that does not pass the threshold has its `classified` event
\* appended and is then acknowledged without any write to the prompts, domains
\* and classifications tables, so that no blocklist changes; and whenever one
\* of these tables changes, the writer is a handling whose verdict passes.
C4_NoProjectionBelowThreshold ==
    [][/\ \A q \in DOMAIN pc :
             (pc[q] = "classified" /\ ~PassesThreshold(res[q])
              /\ AppendedBy(q, "classified"))
             => /\ pc'[q] = "ack"
                /\ proj' = proj
                /\ \A type \in AllProcs, t \in 0..(MaxTime + TtlDays) :
                      get_blocked_domains(type, t)' = get_blocked_domains(type, t)
       /\ proj' # proj =>
             \E q \in DOMAIN pc :
                /\ pc[q] = "project"
                /\ PassesThreshold(res[q])
                /\ WroteEvent(q)
                /\ LastEventBy(q).action = "classified"
                /\ LastEventBy(q).domain = cur[q]
                /\ LastEventBy(q).is_matching_site
                /\ LastEventBy(q).confidence >= MinConfidence]_vars

\* C4 witness: a verdict below the threshold has been recorded and is about
\* to be acknowledged, and the projection tables are empty.
C4_Witness ==
    \E q \in DOMAIN pc :
        /\ pc[q] = "ack"
        /\ res[q].ok
        /\ ~PassesThreshold(res[q])
        /\ WroteEvent(q)
        /\ LastEventBy(q).action = "classified"
        /\ classifications = <<>> /\ domains = {} /\ prompts = {}

\* every Classification row has its Domain row and its Prompt row
ProjectionComplete ==
    \A i \in 1..Len(classifications) :
        /\ \E d \in domains : d.domain = classifications[i].domain
        /\ \E p \in prompts : p.id = classifications[i].prompt_id

\* C5: update_projections is all or nothing. When it returns Ok the new
\* Classification row, the Domain row stamped now and the Prompt row the
\* Classification refers to are all in the tables; when it returns Err (or
\* the process dies) none of the three tables has changed; and in no state
\* does a reader find a Classification row without its Domain and Prompt.
C5_AtomicProjection ==
    /\ []ProjectionComplete
    /\ [][\A q \in DOMAIN pc :
             (pc[q] = "project" /\ pc'[q] # "project")
             => \/ /\ pc'[q] = "ack"
                   /\ Len(classifications') = Len(classifications) + 1
                   /\ SubSeq(classifications', 1, Len(classifications))
                         = classifications
                   /\ LET c == classifications'[Len(classifications')]
                      IN  /\ c.domain = cur[q]
                          /\ c.classification_type = q
                          /\ [domain |-> cur[q], last_updated |-> now] \in domains'
                          /\ \E p \in prompts' :
                                /\ p.id = c.prompt_id
                                /\ p.hash = compute_prompt_hash(prompt_template(q))
                \/ /\ pc'[q] \in {"nak", "idle"}
                   /\ proj' = proj]_vars

\* C5 witness: update_projections has just returned Err for a verdict that
\* passes the threshold, and the three tables are still empty.
C5_Witness ==
    \E q \in DOMAIN pc :
        /\ pc[q] = "nak"
        /\ PassesThreshold(res[q])
        /\ WroteEvent(q)
        /\ LastEventBy(q).action = "classified"
        /\ classifications = <<>> /\ domains = {} /\ prompts = {}

\* C7: the event log is append-only: what was in it before a step is a
\* prefix of what is in it after the step.
C7_AppendOnly ==
    [][/\ Len(events') >= Len(events)
       /\ SubSeq(events', 1, Len(events)) = events]_vars

\* C7 witness: both components have appended to the log.
C7_Witness ==
    \E i, j \in 1..Len(events) :
        /\ i < j
        /\ events[i].by = "log-processor"
        /\ events[j].action \in {"classified", "error"}

permanent_then_ack ==
    \A q \in DOMAIN pc :
        (pc[q] = "error" /\ PermanentFailure(res[q]) /\ AppendedBy(q, "error"))
        => pc'[q] = "ack"

Range(seq) == {seq[i] : i \in 1..Len(seq)}

\* C6: for every type and time the list get_blocked_domains returns holds
\* exactly the domains that have a Classification row of that type with
\* valid_on <= t < valid_until, each once, in strictly ascending order.
C6_BlocklistExact ==
    \A type \in AllProcs, at \in {None} \cup (0..(MaxTime + TtlDays)) :
        LET r == get_blocked_domains(type, at)
            t == IF at = None THEN now ELSE at
        IN  /\ Range(r) =
                  {d \in AllDomains :
                      \E i \in 1..Len(classifications) :
                          /\ classifications[i].domain = d
                          /\ classifications[i].classification_type = type
                          /\ classifications[i].valid_on <= t
                          /\ t < classifications[i].valid_until}
            /\ \A i \in 1..(Len(r) - 1) : DomainRank[r[i]] < DomainRank[r[i + 1]]

\* C6 witness: a query was answered with two domains at a time t at which
\* two rows of one domain cover t, one row starts at t and a row of the
\* type ends at t.
C6_Witness ==
    \E type \in AllProcs, t \in 0..(MaxTime + TtlDays) :
        /\ resp.status = 200
        /\ resp.body = join(get_blocked_domains(type, t))
        /\ Len(get_blocked_domains(type, t)) = 2
        /\ \E i, j \in 1..Len(classifications) :
              /\ i < j
              /\ classifications[i].domain = classifications[j].domain
              /\ Covers(classifications[i], type, t)
              /\ Covers(classifications[j], type, t)
              /\ classifications[j].valid_on = t

\* consecutive_error_count(domain) as it is specified: the number of the
\* domain's most recent events that all have action error
ConsecutiveErrorCount(d) ==
    LET es == DomainEvents(d)
    IN  Cardinality({k \in 1..Len(es) :
                        \A j \in k..Len(es) : es[j].action = "error"})

\* C9: after the error event of a non-permanent failure the Queue-Processor
\* acknowledges the message when the domain's consecutive error count is at
\* least 3, and negatively acknowledges it otherwise.
C9_AckIffThreeConsecutiveErrors ==
    [][\A q \in DOMAIN pc :
          (pc[q] = "count" /\ pc'[q] \in {"ack", "nak"}) =>
              pc'[q] = IF ConsecutiveErrorCount(cur[q]) >= 3 THEN "ack" ELSE "nak"]_vars

\* the error events that q's handlings of d have recorded
ErrorsRecordedBy(q, d) ==
    Cardinality({i \in 1..Len(events) :
                    /\ events[i].domain = d
                    /\ events[i].by = q
                    /\ events[i].action = "error"})

\* C10: a Queue-Processor that has recorded three failed classifications of
\* a domain does not hand the message back for another delivery: the
\* circuit is open and the message is acknowledged.
C10_NoRedeliveryAfterThreeFailures ==
    [][\A q \in DOMAIN pc :
          (pc[q] = "count" /\ ErrorsRecordedBy(q, cur[q]) >= 3) =>
              pc'[q] # "nak"]_vars

\* C11: whenever a Queue-Processor calls count_consecutive_errors for the
\* domain it handles, the call returns the number of the domain's most recent
\* events that all have action error.
C11_CountIsTrailingErrorRun ==
    \A q \in DOMAIN pc :
        pc[q] = "count" =>
            /\ count_consecutive_errors(cur[q], 10) # DbErr
            /\ count_consecutive_errors(cur[q], 10) = ConsecutiveErrorCount(cur[q])

\* the actions of the events Queue-Processor q appended for d, in order
ActionsBy(q, d) ==
    LET es == SelectSeq(events, LAMBDA e : e.by = q /\ e.domain = d)
    IN  [i \in 1..Len(es) |-> es[i].action]

\* two failed deliveries and a third with a passing verdict have been
\* handled for d, and the message is acknowledged
TwoFailuresThenMatch(q, d) ==
    /\ ActionsBy(q, d) = <<"classifying", "error", "classifying", "error",
                           "classifying", "classified">>
    /\ LastEventBy(q).is_matching_site
    /\ LastEventBy(q).confidence >= MinConfidence
    /\ pc[q] = "idle"
    /\ pending[q][d] = 0

\* C12: after two deliveries that fail with a transient error and a third
\* that returns a passing verdict, the domain has three classifying, two
\* error and one final classified event, exactly one Classification row,
\* and count_consecutive_errors returns 0.
C12_TwoFailuresThenMatch ==
    \A q \in DOMAIN pc, d \in AllDomains :
        (d \in DOMAIN pending[q] /\ TwoFailuresThenMatch(q, d)) =>
            LET es == DomainEvents(d)
                n(a) == Cardinality({i \in 1..Len(es) : es[i].action = a})
            IN  /\ n("classifying") = 3
                /\ n("error") = 2
                /\ n("classified") = 1
                /\ es[Len(es)].action = "classified"
                /\ Cardinality({j \in 1..Len(classifications) :
                                   classifications[j].domain = d}) = 1
                /\ ConsecutiveErrorCount(d) = 0
                /\ count_consecutive_errors(d, 10) # DbErr
                /\ count_consecutive_errors(d, 10) = 0

\* C13: a message whose payload does not deserialize goes straight to the
\* acknowledgement: from its delivery to its removal from the consumer no
\* event is appended, no projection row changes and the classifier is not
\* run, and the only thing the Queue-Processor does with it is to
\* acknowledge it, after which the consumer no longer holds it (unless the
\* process dies before the acknowledgement).
C13_PoisonAcked ==
    /\ [](\A q \in DOMAIN pc : cur[q] = Poison => pc[q] = "ack" /\ res[q] = NoResult)
    /\ [][\A q \in DOMAIN pc :
             /\ (pc[q] = "idle" /\ cur'[q] = Poison)
                   => pc'[q] = "ack" /\ store' = store /\ pending' = pending
             /\ (cur[q] = Poison /\ pc'[q] # pc[q])
                   => /\ store' = store
                      /\ pc'[q] = "idle"
                      /\ \/ pending'[q][Poison] = pending[q][Poison] - 1
                         \/ pending' = pending]_vars

\* C13 witness: a malformed message is being acknowledged by a
\* Queue-Processor that has handled a domain before, and a moment later the
\* consumer no longer holds it.
C13_Witness ==
    \E q \in DOMAIN pc :
        /\ pc[q] = "ack"
        /\ cur[q] = Poison
        /\ pending[q][Poison] = 1
        /\ WroteEvent(q)

\* the step of q's handling that is taken now is a store operation that fails
StoreOperationFails(q) ==
    /\ pc'[q] # pc[q]
    /\ \/ pc[q] \in {"classifying", "classified", "error"} /\ events' = events
       \/ pc[q] = "project" /\ proj' = proj
       \/ pc[q] = "count" /\ count_consecutive_errors(cur[q], 10) = DbErr

\* C14: when a store operation of a handling fails (the append of
\* classifying, classified or error, the commit of the projection, the count
\* of consecutive errors), the handling stops there with a negative
\* acknowledgement (or the process has died): nothing more is written, and
\* the message is handed back and stays with the consumer.
C14_StoreFailureNaks ==
    [][\A q \in DOMAIN pc :
          /\ StoreOperationFails(q)
                => /\ pc'[q] \in {"nak", "idle"}
                   /\ store' = store
                   /\ pending' = pending
          /\ (pc[q] = "nak" /\ pc'[q] # pc[q])
                => /\ pc'[q] = "idle"
                   /\ store' = store
                   /\ pending' = pending]_vars

\* C14 witness: the count of consecutive errors has just failed after the
\* error event of a transient failure was appended, and the handling is
\* about to hand the message back.
C14_Witness ==
    \E q \in DOMAIN pc :
        /\ pc[q] = "nak"
        /\ ~res[q].ok
        /\ ~PermanentFailure(res[q])
        /\ WroteEvent(q)
        /\ LastEventBy(q).action = "error"
        /\ pending[q][cur[q]] > 0

\* should_queue as it is specified: false exactly when the latest event is
\* queued, classifying or error, or classified with a valid Classification
ShouldQueueSpecified(action, count) ==
    ~(\/ action \in {"queued", "classifying", "error"}
      \/ action = "classified" /\ count > 0)

\* C15: should_queue_domain answers as specified, for every latest action
\* and every number of valid Classifications, and in particular for what the
\* store holds for each domain; and the Log-Processor goes on with Ok(true)
\* only for a domain without events or, after it read classified as the
\* latest action, without a valid Classification.
C15_ShouldQueueTable ==
    /\ [](\A a \in {"none", "queued", "classifying", "classified", "error"},
             n \in 0..MaxRows :
             should_queue_domain(a, n) = ShouldQueueSpecified(a, n))
    /\ [](\A d \in AllDomains :
             /\ LatestRows(d) = {} => should_queue_domain("none", ValidCount(d))
             /\ \A row \in LatestRows(d) :
                   should_queue_domain(row.action, ValidCount(d))
                       = ShouldQueueSpecified(row.action, ValidCount(d)))
    /\ [][(lp_pc # "insert" /\ lp_pc' = "insert" /\ lp_sq' = "true") =>
             IF lp_pc = "idle"
             THEN LatestRows(lp_dom') = {}
             ELSE lp_dom' = lp_dom /\ ValidCount(lp_dom) = 0]_vars

\* C15 witness: the Log-Processor got Ok(true) for a domain whose latest
\* event is classified and that has no valid Classification.
C15_Witness ==
    /\ lp_pc = "insert"
    /\ lp_sq = "true"
    /\ LatestIs(lp_dom, "classified")
    /\ ValidCount(lp_dom) = 0

\* the latest event of d is classified and the interval of its
\* Classification has run out
ExpiredClassified(d) ==
    /\ LatestIs(d, "classified")
    /\ ValidCount(d) = 0
    /\ \E i \in 1..Len(classifications) :
          /\ classifications[i].domain = d
          /\ classifications[i].valid_until <= now

\* C16: the next log line that mentions a domain whose latest event is
\* classified and whose Classification has expired is taken up by the
\* Log-Processor (looked up and queued again), also when the Log-Processor
\* has handled or skipped the domain earlier in the same run: the line is
\* not rejected.
C16_ExpiredIsRequeued ==
    \A d \in AllDomains :
        (ExpiredClassified(d) /\ lp_pc = "idle") =>
            /\ d \notin seen
            /\ ENABLED LPLine(d)

\* C17: the prompts table holds at most one row per hash and per id, rows
\* are never changed or removed (so the row of a hash keeps the content that
\* was inserted first), selecting by the hash of a stored content returns
\* that content, and every Classification refers to the one row that has
\* the hash of its type's prompt.
C17_PromptDeduplicated ==
    /\ [](\A r1, r2 \in prompts :
             (r1.hash = r2.hash \/ r1.id = r2.id) => r1 = r2)
    /\ [](\A r \in prompts :
             (CHOOSE x \in prompts : x.hash = compute_prompt_hash(r.content)).content
                 = r.content)
    /\ [](\A i \in 1..Len(classifications) :
             \E r \in prompts :
                /\ r.id = classifications[i].prompt_id
                /\ r.hash = compute_prompt_hash(
                                prompt_template(classifications[i].classification_type)))
    /\ [][prompts \subseteq prompts']_vars

\* C17 witness: Queue-Processors of two types have committed Classifications
\* that refer to the same prompt row, and a further transaction has found
\* that row in its way.
C17_Witness ==
    /\ Cardinality(prompts) = 1
    /\ \E i, j \in 1..Len(classifications) :
          /\ classifications[i].classification_type = "gaming"
          /\ classifications[j].classification_type = "video"
          /\ classifications[i].prompt_id = classifications[j].prompt_id
    /\ \E q \in DOMAIN pc : pc[q] = "tx_existing"

ClassifyingInHand(q, d) ==
    /\ cur[q] = d
    /\ pc[q] \in {"run", "classified", "error"}

\* the last event written for d is an outcome
HasOutcome(d) ==
    /\ Len(DomainEvents(d)) > 0
    /\ LastInserted(d).action \in {"classified", "error"}

C20_Ownership ==
    [][/\ LogProcessor(Domains) =>
            /\ UNCHANGED proj
            /\ \/ UNCHANGED events
               \/ Appended("queued") /\ NewEvent.by \notin DOMAIN pc
       /\ \A q \in DOMAIN pc :
            QueueProcessor(q, Domains, Outcomes) =>
                \/ UNCHANGED events
                \/ \E a \in {"classifying", "classified", "error"} : AppendedBy(q, a)
       /\ proj' # proj => \E q \in DOMAIN pc : UpdateProjections(q)
       /\ (\E type \in Procs : GetBlocklist(type, NoAt)) => UNCHANGED store
      ]_vars

\* C20 witness: each component has done its part: a "queued" event of the
\* Log-Processor, a "classified" event and a Classification row of the
\* Queue-Processor, and a non-empty answer of the Blocklist-Server.
C20_Witness ==
    /\ \E i \in DOMAIN events :
            events[i].action = "queued" /\ events[i].by \notin DOMAIN pc
    /\ \E i \in DOMAIN events :
            events[i].action = "classified" /\ events[i].by \in DOMAIN pc
    /\ Len(classifications) > 0
    /\ resp.status = 200
    /\ Len(resp.body) > 0

\* the list holds the domain
Lists(list, d) == \E i \in 1..Len(list) : list[i] = d

\* The domain d was observed and queued once by the one run of the
\* Log-Processor, its message was delivered once to q, the verdict of that
\* delivery passes the threshold, and the message is acknowledged.
HappyPath(q, d) ==
    /\ restarts = 0
    /\ pc[q] = "idle"
    /\ pending[consumer_name(q)][d] = 0
    /\ Len(SelectSeq(events, LAMBDA e : e.domain = d /\ e.action = "queued")) = 1
    /\ Len(SelectSeq(events, LAMBDA e : e.domain = d /\ e.action = "classifying")) = 1
    /\ \E i \in DOMAIN events :
          /\ events[i].domain = d
          /\ events[i].action = "classified"
          /\ events[i].is_matching_site
          /\ events[i].confidence >= MinConfidence

\* C21: a new domain observed once and classified as matching with a
\* confidence of at least MIN_CONFIDENCE on its first delivery leaves exactly
\* the events queued, classifying, classified in this order, one Domain row
\* and one Classification row whose valid_until is the commit time plus
\* TTL_DAYS; the blocklist of the type at the current time lists the domain
\* (until TTL_DAYS have passed).
C21_HappyPath ==
    \A q \in DOMAIN pc : \A d \in Domains :
        HappyPath(q, d) =>
            LET log == DomainEvents(d)
                rows == SelectSeq(classifications, LAMBDA r : r.domain = d)
            IN  /\ Len(log) = 3
                /\ log[1].action = "queued"
                /\ log[2].action = "classifying"
                /\ log[3].action = "classified"
                /\ Cardinality({r \in domains : r.domain = d}) = 1
                /\ Len(rows) = 1
                /\ rows[1].classification_type = classification_type(q)
                /\ rows[1].valid_on >= log[3].created_at
                /\ rows[1].valid_until = rows[1].valid_on + TtlDays
                /\ \A r \in domains : r.domain = d => r.last_updated = rows[1].valid_on
                /\ now < rows[1].valid_until
                      => Lists(get_blocked_domains(classification_type(q), None), d)

\* C21 witness: the happy path has run and the blocklist lists the domain.
C21_Witness ==
    \E q \in DOMAIN pc : \E d \in Domains :
        /\ HappyPath(q, d)
        /\ Lists(get_blocked_domains(classification_type(q), None), d)

\* the time an accepted "at" parameter stands for (None: the current time)
CheckTime(at) == IF at = NoAt THEN None ELSE parse_from_rfc3339(at).time

\* C22: GET /blocklist answers 400 to a malformed "at" whatever the store
\* would do; with a well-formed or an absent "at" it answers 500 when the
\* store query fails and otherwise 200 with the blocked domains, one per
\* line; no request changes the stored state, and this holds as well in
\* the states a failed request leaves behind: the response depends on the
\* request and the store alone.
C22_BlocklistStatus ==
    /\ [](\A type \in AllProcs, at \in AtParams, db \in {"Ok", DbErr} :
            LET r == get_blocklist(type, at, db)
            IN  /\ at \in MalformedAt => r.status = 400
                /\ (at \notin MalformedAt /\ db = DbErr) => r.status = 500
                /\ (at \notin MalformedAt /\ db # DbErr) =>
                       /\ r.status = 200
                       /\ r.body = join(get_blocked_domains(type, CheckTime(at))))
    /\ [][/\ UNCHANGED <<store, now>>
          /\ resp'.status \in {200, 400, 500}
          /\ resp'.status = 200 =>
                \E type \in AllProcs, at \in AtParams \ MalformedAt :
                    resp'.body = join(get_blocked_domains(type, CheckTime(at)))]_vars

\* C22 witness: the last request failed on the store while the tables hold
\* a classification that is valid now.
C22_Witness ==
    /\ resp.status = 500
    /\ \E type \in AllProcs : Len(get_blocked_domains(type, None)) > 0

\* the classifier process has ended in JSON output mode
ExitedJson == cl.pc = "exited" /\ cl.output = "json"

\* what stdout holds is exactly one JSON document
OneJsonDocument == Len(cl.stdout) = 1 /\ cl.stdout[1][1] = "json"

\* C23: in JSON output mode the classifier writes exactly one JSON document
\* to stdout whatever the outcome; its exit status is 0 after the success
\* document and not 0 after an error document.
C23_ExitStatusFollowsDocument ==
    ExitedJson =>
        /\ OneJsonDocument
        /\ cl.result.result = "classified" => cl.exit = 0
        /\ cl.result.result = "error" => cl.exit # 0

\* fetch_domain has returned
FetchReturned == cl.pc = "fetched"

\* the requests fetch_domain has sent when it returns
AttemptsMade == IF cl.fetch_ok THEN cl.attempt + 1 ELSE cl.attempt

\* the delays of the documented backoff, in ms
DocumentedDelays == <<500, 1000, 2000>>

\* C29: fetch_domain sends at most 3 requests and stops at the first that
\* obtains a response; it sleeps 500 ms, 1000 ms and 2000 ms around the
\* attempts, one documented delay for each failed attempt; it returns an
\* error only after 3 attempts have failed.
C29_ThreeAttemptsWithBackoff ==
    FetchReturned =>
        /\ AttemptsMade <= 3
        /\ cl.fetch_ok => cl.slept = SubSeq(DocumentedDelays, 1, cl.attempt)
        /\ ~cl.fetch_ok =>
              /\ cl.attempt = 3
              /\ cl.slept = DocumentedDelays

\* every attempt of the fetch has failed and the classifier has ended
AllAttemptsFailed ==
    /\ cl.pc \in {"output", "exited"}
    /\ cl.attempt = max_attempts
    /\ ~cl.fetch_ok

\* the error types that name the fetch of the domain
FetchErrorTypes == {"DomainFetchError", "DomainFetchTimeoutError", "HtmlParseError"}

\* C30: when every fetch attempt has failed, or the metadata could not be
\* extracted, the classifier goes on with synthetic metadata (http_status 0,
\* fetch_error set) and asks the LLM; what it emits is a verdict or an error
\* of the LLM stage, never an error that names the fetch of the domain.
C30_FetchFailureIsNotAnError ==
    AllAttemptsFailed =>
        /\ cl.metadata = from_fetch_error
        /\ \/ cl.result.result = "classified" /\ cl.result.http_status = 0
           \/ cl.result.result = "error" /\ cl.result.error_type \notin FetchErrorTypes

\* a message of d enters the stream in this step
PublishesNow(d) ==
    \E n \in DOMAIN pending : pending'[n][d] > pending[n][d]

HasQueuedEvent(d) ==
    \E i \in 1..Len(events) :
        events[i].domain = d /\ events[i].action = "queued"

\* C24 as stated: a message is published for a domain only after the line
\* that publishes it has appended a `queued` event of that domain: no message
\* is published for a domain that has no `queued` event.
C24_PublishAfterQueued ==
    [][\A d \in Domains : PublishesNow(d) => HasQueuedEvent(d)]_vars

\* the Log-Processor comes to the publish of the line in hand
ReachesPublish == lp_pc' = "publish" /\ lp_pc # "publish"

\* the `queued` row of d that the Log-Processor appends
QueuedRows(d) ==
    {EventRow(d, "queued", "log-processor", t, FALSE, 0, <<>>) : t \in BOOLEAN}

\* C24 (amended): a message is published only by the line handling that
\* has just attempted to append a `queued` event of its domain. The attempt
\* comes right before the publish and either appends exactly that event or
\* fails and leaves the log as it is; the publish follows in both cases, and
\* an appended event is still in the log when the message is published.
C24_PublishAfterInsertAttempt ==
    [][/\ \A d \in Domains : PublishesNow(d) => lp_pc = "publish" /\ lp_dom = d
       /\ ReachesPublish =>
             /\ lp_pc = "insert"
             /\ lp_dom' = lp_dom
             /\ \/ events' = events
                \/ \E row \in QueuedRows(lp_dom) : events' = Append(events, row)
       /\ lp_pc = "publish" =>
             /\ Len(events') >= Len(events)
             /\ SubSeq(events', 1, Len(events)) = events]_vars

\* a message of a.com is in the stream and a.com has no `queued` event: the
\* insert of the line failed and the message was published all the same
C24_Witness ==
    /\ \E n \in DOMAIN pending : pending[n]["a.com"] > 0
    /\ ~HasQueuedEvent("a.com")
    /\ "a.com" \in seen

\* queue.publish_domain returns Err: the line ends, the domain is not marked as seen
PublishFails(d) ==
    /\ lp_pc = "publish"
    /\ lp_dom = d
    /\ lp_pc' = "idle"
    /\ restarts' = restarts
    /\ UNCHANGED pending

\* A `queued` event of d exists whose message was never published: a
\* successful publish and every skip put d into seen_domains, and the
\* process has not been started again.
QueuedButUnpublished(d) ==
    /\ restarts = 0
    /\ lp_pc = "idle"
    /\ d \notin seen
    /\ HasQueuedEvent(d)

\* the step that handles a log line of d
LineObserved(d) ==
    /\ lp_pc = "idle"
    /\ d \notin seen
    /\ lp_pc' # "idle" \/ d \in seen'

\* the line of d goes on to the insert and the publish
Requeues(d) == lp_pc' \in {"insert", "check_valid"} /\ lp_dom' = d

\* C25: when the publish fails after the `queued` event was appended, the
\* event stays in the log, and the next log line of that domain is queued
\* (published) again.
C25_RequeuedAfterPublishFailure ==
    [][\A d \in Domains :
          /\ PublishFails(d) => events' = events
          /\ QueuedButUnpublished(d) /\ LineObserved(d) => Requeues(d)]_vars

\* C26: the latest-event query of a domain (ORDER BY created_at DESC LIMIT 1,
\* in get_latest_event and in should_queue_domain) returns the row of the
\* domain that was inserted last, also when rows of the domain carry the
\* same created_at: every row the query may return is that row.
C26_LatestIsLastInserted ==
    \A d \in Domains :
        \A row \in LatestRows(d) : row = LastInserted(d)

\* C27: every Classification row that was ever written has
\* valid_on <= valid_until, whatever TTL the Queue-Processor was started with.
C27_ValidIntervalOrdered ==
    \A i \in 1..Len(classifications) :
        classifications[i].valid_on <= classifications[i].valid_until

\* the Classification rows of d in the table cs, and those that cover now
RowsOf(d, cs) == {i \in 1..Len(cs) : cs[i].domain = d}
CoveringNow(d, cs) ==
    {i \in RowsOf(d, cs) : Covers(cs[i], cs[i].classification_type, now)}

\* a step that changes the projections of the classifications
CommitStep == classifications' # classifications \/ domains' # domains

\* C28: the classification table is insert-only. A commit adds one
\* Classification row of the domain in hand and leaves the rows before it as
\* they were; the Domain row of that domain exists from the first commit on
\* and carries the time of the latest commit, which is never earlier than
\* the one before; the other Domain rows stay. When no row of the domain
\* covered the current time before the commit (the domain had expired), the
\* old rows are still there and the new row is the only one that covers it.
C28_InsertOnly ==
    /\ [](\A d \in Domains :
             (\E r \in domains : r.domain = d) <=> RowsOf(d, classifications) # {})
    /\ [][CommitStep =>
            \E q \in Procs :
                LET d == cur[q]
                    n == Len(classifications)
                IN  /\ pc[q] \in {"project", "tx_existing", "tx_inserted"}
                    /\ Len(classifications') = n + 1
                    /\ SubSeq(classifications', 1, n) = classifications
                    /\ classifications'[n + 1].domain = d
                    /\ {r \in domains' : r.domain = d}
                          = {[domain |-> d, last_updated |-> now]}
                    /\ {r \in domains' : r.domain # d}
                          = {r \in domains : r.domain # d}
                    /\ \A r \in domains : r.domain = d => r.last_updated <= now
                    /\ CoveringNow(d, classifications) = {}
                          => CoveringNow(d, classifications') = {n + 1}]_vars

\* a.com was classified, its classification expired, and it was classified
\* again: two rows, the first one over, the Domain row at the second commit
C28_Witness ==
    /\ Len(classifications) = 2
    /\ RowsOf("a.com", classifications) = {1, 2}
    /\ classifications[1].valid_until <= classifications[2].valid_on
    /\ CoveringNow("a.com", classifications) = {2}
    /\ domains = {[domain |-> "a.com",
                   last_updated |-> classifications[2].valid_on]}
    /\ classifications[2].valid_on > classifications[1].valid_on

\* the text is a document that decodes as ClassificationOutput with result "classified"
IsClassifiedDocument(text) == text.shape = "success" /\ text.result = "classified"

ValidDomain(d) ==
    /\ \E i \in 1..Len(d) : d[i] = "."
    /\ Len(d) > 0 => d[1] \notin {".", "-"} /\ d[Len(d)] \notin {".", "-"}
    /\ Len(d) <= 253
    /\ \A i \in 1..Len(d) : d[i] # " "
    /\ to_lowercase(d) # Localhost
    /\ \A suffix \in {DotLocal, DotLocalhost, DotInternal} :
          ~ends_with(to_lowercase(d), suffix)

\* the candidates of a line: what the patterns capture in it
Candidates(line) == {Captures(k, line) : k \in Patterns} \ {<<>>}

\* C32: parse_log_line returns a domain only if it is valid, and every domain
\* it returns is in lower case; a line whose candidates are all invalid
\* yields no domain.
C32_ParsedDomainIsValid ==
    lp_line.pc = "parsed" =>
        /\ lp_line.domain # <<>> =>
              /\ ValidDomain(lp_line.domain)
              /\ \A i \in 1..Len(lp_line.domain) : lp_line.domain[i] \notin UpperCase
              /\ \E c \in Candidates(lp_line.line) : lp_line.domain = to_lowercase(c)
        /\ (\A c \in Candidates(lp_line.line) : ~ValidDomain(c)) =>
              lp_line.domain = <<>>

\* a line with two candidates: the first one, under .internal, is passed
\* over and the second one is returned in lower case
C32_Witness ==
    /\ lp_line.pc = "parsed"
    /\ Candidates(lp_line.line) =
          {Myhost \o DotInternal,
           <<"E", "X", "A", "M", "P", "L", "E", ".", "C", "O", "M">>}
    /\ lp_line.domain = Example \o DotCom

\* C33: encoding then decoding is the identity: what the receiver decodes
\* from the sender's JSON of a queue message, a classifier success output or
\* a classifier error output (each of the ten error types, with and without
\* the optional metadata) is the value that was serialized.
C33_RoundTripIsIdentity ==
    wire.pc = "decoded" =>
        /\ wire.decoded.ok
        /\ wire.decoded.value = wire.value

\* an error output without metadata, whose message holds quotes, a backslash
\* and a line feed, has been sent and read back
C33_Witness ==
    /\ wire.pc = "decoded"
    /\ wire.type = "ErrorOutput"
    /\ wire.value.error.error_type = "OllamaApiTimeoutError"
    /\ ~wire.value.metadata.some
    /\ Quote \in {wire.value.error.message[i] : i \in 1..Len(wire.value.error.message)}
    /\ Get(wire.json, "metadata") = JNull
    /\ wire.decoded.ok

\* the Log-Processor touches the store or the queue for the line in hand
LPHandles(d) == lp_pc # "idle" /\ lp_dom = d

\* C34: within one run of the Log-Processor a domain is published at most
\* once. A successful publish is of a domain that is not in seen_domains and
\* puts it there; seen_domains loses no member while the process runs; and a
\* domain in seen_domains is never handled: no query, insert or publish is
\* made for it, whatever failed before.
C34_PublishedOncePerRun ==
    /\ [](\A d \in Domains : LPHandles(d) => d \notin seen)
    /\ [][/\ \A d \in Domains :
               /\ PublishesNow(d) => LPHandles(d) /\ d \notin seen /\ d \in seen'
               /\ d \in seen /\ restarts' = restarts =>
                     /\ d \in seen'
                     /\ ~PublishesNow(d)
                     /\ ~(lp_pc' # "idle" /\ lp_dom' = d)
          /\ Len(events') > Len(events) /\ events'[Len(events')].by = "log-processor" =>
                LPHandles(events'[Len(events')].domain)]_vars

\* a.com was published in the first run after its `queued` event was
\* appended and is in seen_domains; the message is still in the stream
C34_Witness ==
    /\ restarts = 0
    /\ "a.com" \in seen
    /\ HasQueuedEvent("a.com")
    /\ \E n \in DOMAIN pending : pending[n]["a.com"] > 0
    /\ lp_pc = "idle"

\* the domains that have a Classification row of the type covering time t
CoveredDomains(type, t) ==
    {classifications[i].domain :
        i \in {k \in 1..Len(classifications) : Covers(classifications[k], type, t)}}

\* C35: every Classification row's domain has a Domain row and its prompt_id
\* is the id of a Prompt row, so the blocklist query lists every domain
\* that has a Classification row of the type covering the time asked for.
C35_ClassificationHasDomainAndPrompt ==
    /\ \A i \in 1..Len(classifications) :
          /\ \E r \in domains : r.domain = classifications[i].domain
          /\ \E p \in prompts : p.id = classifications[i].prompt_id
    /\ \A q \in Procs, t \in 0..(MaxTime + TtlDays) :
          LET listed == get_blocked_domains(classification_type(q), t)
          IN  CoveredDomains(classification_type(q), t) =
                  {listed[i] : i \in 1..Len(listed)}

\* a.com has a Classification row that covers now and the query lists it
C35_Witness ==
    /\ pc["gaming"] = "ack"
    /\ CoveringNow("a.com", classifications) # {}
    /\ get_blocked_domains("gaming", None) = <<"a.com">>

\* this step inserts a Classification row
InsertsRow == Len(classifications') = Len(classifications) + 1

InsertedRow == classifications'[Len(classifications')]

\* the passing `classified` event that justifies the row r of handling q
Justifies(e, r, q) ==
    /\ e.action = "classified"
    /\ e.domain = r.domain
    /\ e.by = q
    /\ classification_type(e.by) = r.classification_type
    /\ e.is_matching_site
    /\ e.confidence >= MinConfidence
    /\ e.confidence = r.confidence

\* C36 as stated: when a Classification row is inserted, the latest event of
\* its domain (whichever row the latest-event query may return) is a passing
\* `classified` event of the same type, appended in the same handling.
C36_RowJustifiedByLatestEvent ==
    [][InsertsRow =>
          \E q \in DOMAIN pc :
              /\ pc[q] = "project"
              /\ \A e \in LatestRows(InsertedRow.domain) : Justifies(e, InsertedRow, q)]_vars

\* C36 (amended): when a Classification row is inserted, the handling that
\* inserts it has appended a passing `classified` event of the row's domain
\* and type with the row's confidence; that event is the last event this
\* Queue-Processor appended and is still in the log. It need not be the
\* latest event of the domain: the Log-Processor may have appended an event
\* of the domain since.
C36_RowJustifiedByOwnEvent ==
    [][InsertsRow =>
          \E q \in DOMAIN pc :
              /\ pc[q] = "project"
              /\ cur[q] = InsertedRow.domain
              /\ WroteEvent(q)
              /\ Justifies(LastEventBy(q), InsertedRow, q)
              /\ events' = events]_vars

\* a.com has a Classification row and the last event of a.com in the log is
\* a `queued` event that follows the passing `classified` event
C36_Witness ==
    /\ Len(classifications) = 1
    /\ classifications[1].domain = "a.com"
    /\ Len(events) >= 2
    /\ events[Len(events)].action = "queued"
    /\ events[Len(events)].domain = "a.com"
    /\ events[Len(events) - 1].action = "classified"
    /\ events[Len(events) - 1].is_matching_site
    /\ events[Len(events) - 1].confidence >= MinConfidence

\* the step in which the handling of Queue-Processor q comes to its
\* acknowledgement decision
Decides(q) == pc[q] \notin {"ack", "nak"} /\ pc'[q] \in {"ack", "nak"}

\* the cases in which the message is to be acknowledged: a poison message, a
\* successful classification (the handling returned Ok after its last
\* write), a permanent error, an open circuit
AckCase(q) ==
    \/ pc[q] = "idle" /\ cur'[q] = Poison
    \/ pc[q] = "classified" /\ events' # events /\ ~MatchesCriteria(res[q])
    \/ pc[q] = "project" /\ classifications' # classifications
    \/ pc[q] = "error" /\ events' # events /\ PermanentFailure(res[q])
    \/ pc[q] = "count" /\ ConsecutiveErrorCount(cur[q]) >= 3

\* C37: every handling that finishes without a crash makes exactly one
\* acknowledgement decision, never both: ack for a poison message, a
\* successful classification, a permanent error and an open circuit (at
\* least 3 consecutive errors), nak for every other failure; an ack removes
\* the message from the consumer, a nak leaves it there, and nothing follows
\* the decision but the end of the handling.
C37_OneAckDecision ==
    [][\A q \in DOMAIN pc :
          /\ Decides(q) => pc'[q] = IF AckCase(q) THEN "ack" ELSE "nak"
          /\ (pc[q] = "idle" /\ pc'[q] # "idle") =>
                pc'[q] \in {"classifying", "ack"}
          /\ (pc[q] \in {"ack", "nak"} /\ pc'[q] # pc[q]) =>
                /\ pc'[q] = "idle"
                /\ store' = store
                /\ pc[q] = "nak" => pending' = pending]_vars

\* the number of events of domain d with an action in as
CountOf(d, as) ==
    Cardinality({i \in 1..Len(events) : events[i].domain = d /\ events[i].action \in as})

\* the classifier of q's handling is run in this step
RunsClassifier(q) == pc[q] = "run" /\ pc'[q] \in {"classified", "error"}

\* C38: the classifier is run for a delivery only after the handling has
\* appended a `classifying` event of the domain, and a `classified` or
\* `error` event is appended only by a handling whose last event before it
\* is that `classifying` event; so for every domain the `classifying` events
\* are at least as many as the `classified` and `error` events together.
C38_ClassifyingFirst ==
    /\ [](\A d \in Domains :
             CountOf(d, {"classifying"}) >= CountOf(d, {"classified", "error"}))
    /\ [][\A q \in DOMAIN pc :
             /\ (pc'[q] = "run" /\ pc[q] # "run") =>
                   pc[q] = "classifying" /\ AppendedBy(q, "classifying")
             /\ (RunsClassifier(q) \/ AppendedBy(q, "classified") \/ AppendedBy(q, "error")) =>
                   /\ WroteEvent(q)
                   /\ LastEventBy(q).action = "classifying"
                   /\ LastEventBy(q).domain = cur[q]
             /\ (Appended("classified") \/ Appended("error")) =>
                   NewEvent.by \in DOMAIN pc]_vars

\* the second delivery of a.com: the first handling appended `classifying`
\* and `error`, the second has appended `classifying` and runs the classifier
C38_Witness ==
    /\ pc["gaming"] = "run"
    /\ cur["gaming"] = "a.com"
    /\ Len(events) = 3
    /\ events[1].action = "classifying"
    /\ events[2].action = "error"
    /\ events[3].action = "classifying"

\* the classifier of q's handling has failed and the handling has come to
\* its end: the message is about to be acknowledged or handed back
EndsInClassifierFailure(q) ==
    pc[q] \in {"ack", "nak"} /\ res[q] # NoResult /\ ~res[q].ok

\* the last event q appended is the `error` event of the failure in hand
ErrorEventRecorded(q) ==
    /\ WroteEvent(q)
    /\ LastEventBy(q).action = "error"
    /\ LastEventBy(q).domain = cur[q]
    /\ LastEventBy(q).error = <<res[q].kind>> \o res[q].msg

\* a step of q's handling after the classifier has failed
FailureStep(q) ==
    /\ pc[q] \in {"error", "count", "ack", "nak"}
    /\ res[q] # NoResult /\ ~res[q].ok
    /\ pc'[q] # pc[q]

\* C39 as stated: a handling that ends in a classifier failure has appended
\* exactly one `error` event carrying the error message, and has left the
\* Domain, Classification and Prompt tables unchanged.
C39_OneErrorEvent ==
    /\ [](\A q \in DOMAIN pc : EndsInClassifierFailure(q) => ErrorEventRecorded(q))
    /\ [][\A q \in DOMAIN pc :
             FailureStep(q) =>
                /\ proj' = proj
                /\ pc[q] # "error" => events' = events]_vars

\* C39 (amended): a handling whose classifier failed attempts exactly one
\* append of an `error` event carrying the error message, right after the
\* failure. When the append succeeds, that event is the only one the
\* handling appends after the failure; when the store rejects it, no event
\* is appended and the message is handed back. In both cases the Domain,
\* Classification and Prompt tables are left unchanged.
C39_OneErrorEventAttempt ==
    /\ [](\A q \in DOMAIN pc :
             EndsInClassifierFailure(q) =>
                \/ ErrorEventRecorded(q)
                \/ /\ pc[q] = "nak"
                   /\ WroteEvent(q)
                   /\ LastEventBy(q).action = "classifying"
                   /\ LastEventBy(q).domain = cur[q])
    /\ [][\A q \in DOMAIN pc :
             FailureStep(q) =>
                /\ proj' = proj
                /\ pc[q] # "error" => events' = events
                /\ pc[q] = "error" =>
                      \/ /\ AppendedBy(q, "error")
                         /\ NewEvent.error = <<res[q].kind>> \o res[q].msg
                         /\ pc'[q] \in {"ack", "count", "idle"}
                      \/ /\ events' = events
                         /\ pc'[q] \in {"nak", "idle"}]_vars

\* the classifier failed, the store rejected the `error` event, and the
\* message is about to be handed back: the handling's last event is
\* `classifying`
C39_Witness ==
    \E q \in DOMAIN pc :
        /\ pc[q] = "nak"
        /\ res[q] # NoResult /\ ~res[q].ok
        /\ WroteEvent(q)
        /\ LastEventBy(q).action = "classifying"
        /\ Len(events) < cap.events

\* the dnsdist API is configured and reports d as blocked: a response with
\* a success status whose body names d
ReportsBlocked(reply, d) ==
    /\ reply.configured
    /\ reply.send_ok
    /\ reply.status \in 200..299
    /\ reply.body_ok
    /\ d \in reply.body

\* the API call fails or returns a status that is not a success
ApiFailure(reply) ==
    /\ reply.configured
    /\ ~reply.send_ok \/ reply.status \notin 200..299 \/ ~reply.body_ok

\* should_queue_domain returns Ok(false) for d in the state before the step:
\* the latest event is queued, classifying or error, or it is classified
\* and a Classification of d is still valid
ReturnsFalse(d) ==
    \/ lp_pc = "idle" /\ \E row \in LatestRows(d) :
                            row.action \in {"queued", "classifying", "error"}
    \/ lp_pc = "check_valid" /\ ValidCount(d) > 0

\* the line of d is decided in this step: it is skipped or goes on
LineSkipped(d) ==
    /\ lp_pc \in {"idle", "check_valid"}
    /\ restarts' = restarts
    /\ d \notin seen /\ d \in seen'

LineGoesOn(d) ==
    /\ lp_pc \in {"idle", "check_valid"}
    /\ lp_pc' = "insert"
    /\ lp_dom' = d

\* C40: the Log-Processor fails open. A line is skipped (the domain put into
\* seen_domains, no event appended, nothing published) only when
\* should_queue_domain returned false or the dnsdist API reported the
\* domain as blocked; a failed lookup, a failed API call or an API status
\* that is not a success lets the line go on to the insert; and after the
\* insert, whether it appended the `queued` event or failed, the line goes
\* on to the publish.
C40_FailsOpen ==
    [][/\ \A d \in Domains :
             /\ LineSkipped(d) =>
                   /\ lp_pc' = "idle"
                   /\ events' = events
                   /\ pending' = pending
                   /\ ReturnsFalse(d) \/ ReportsBlocked(lp_api', d)
             /\ LineGoesOn(d) =>
                   /\ lp_sq' \in {"true", "err"}
                   /\ ~ReportsBlocked(lp_api', d)
                   /\ lp_sq' = "true" => ~ReturnsFalse(d)
             /\ ((LineSkipped(d) \/ LineGoesOn(d)) /\ ApiFailure(lp_api')) =>
                   LineGoesOn(d)
       /\ (lp_pc = "insert" /\ lp_pc' # lp_pc /\ restarts' = restarts) =>
             /\ lp_pc' = "publish"
             /\ lp_dom' = lp_dom
             /\ pending' = pending
       /\ (lp_pc = "publish" /\ lp_pc' # lp_pc /\ restarts' = restarts) =>
             /\ lp_pc' = "idle"
             /\ events' = events
             /\ \/ PublishesNow(lp_dom) /\ lp_dom \in seen'
                \/ pending' = pending /\ seen' = seen]_vars

\* the lookup failed, the dnsdist API answered 500 and the insert of the
\* `queued` event failed: the line is at the publish all the same
C40_Witness ==
    /\ lp_pc = "publish"
    /\ lp_dom = "a.com"
    /\ lp_sq = "err"
    /\ lp_api = Reply(TRUE, 500, FALSE, {})
    /\ events = <<>>
====
